---------------------------- MODULE Spec2Model ----------------------------
(***************************************************************************)
(* A model of the Uniswap-V3 swap simulator of amm-voyage.                 *)
(*                                                                         *)
(* Scaling.  TLC evaluates 32-bit integers, the program computes on 256-   *)
(* bit words.  Every width of the program is therefore modelled at one     *)
(* sixteenth of its size, and every algorithm is kept as the code has it:  *)
(*                                                                         *)
(*      program                         model                              *)
(*      U256  (256 bits)                16 bits      U256_BITS             *)
(*      I256  (two's complement)        16 bits      I256_MAX = 2^15 - 1   *)
(*      U160  (sqrt prices)             10 bits      U160_BITS             *)
(*      u128 / i128 (liquidity)          8 bits      U128_BITS             *)
(*      Q96 = 2^96                      2^6          FIXED_POINT96_...     *)
(*      Q128 = 2^128                    2^8          FIXED_POINT128_...    *)
(*      ticks -887272 .. 887272         -16 .. 16    MAX_TICK              *)
(*      sqrt(1.0001) per tick           2^(1/4) per tick                   *)
(*      MIN_SQRT_RATIO ~ 2^32           2^2                                *)
(*      MAX_SQRT_RATIO ~ 2^160          2^10                               *)
(*      bitmap word of 2^8 bits         2^2 bits     WORD_BITS             *)
(*      fee denominator 1e6             100          FEE_DENOMINATOR       *)
(*      tick windows 100 / 200          2 / 4        TICK_WINDOW_...       *)
(*      bitmap window 20 words          1 word       WORD_WINDOW           *)
(*      price impact 1e6 / 1e4          1 / 10       IMPACT_...            *)
(*                                                                         *)
(* The magic tables of tick_math.rs are replaced by the tables of the      *)
(* scaled base, computed the way the originals were (2^128 / sqrt(1.0001)  *)
(* ^(2^k) becomes 2^8 / 2^(2^k / 4)).                                      *)
(***************************************************************************)
EXTENDS Integers, Sequences, FiniteSets, TLC

-----------------------------------------------------------------------------
(* Widths *)

U256_BITS == 16
U160_BITS == 10
U128_BITS == 8
FIXED_POINT96_RESOLUTION == 6
FIXED_POINT128_RESOLUTION == 8
WORD_BITS == 2

RECURSIVE Pow2(_)
Pow2(n) == IF n <= 0 THEN 1 ELSE 2 * Pow2(n - 1)

U256_MOD == Pow2(U256_BITS)
U256_MAX == U256_MOD - 1
I256_MAX == Pow2(U256_BITS - 1) - 1
I256_MIN == -Pow2(U256_BITS - 1)
U160_MAX == Pow2(U160_BITS) - 1
U128_MOD == Pow2(U128_BITS)
U128_MAX == U128_MOD - 1
I128_MAX == Pow2(U128_BITS - 1) - 1
I128_MIN == -Pow2(U128_BITS - 1)
Q96 == Pow2(FIXED_POINT96_RESOLUTION)
Q128 == Pow2(FIXED_POINT128_RESOLUTION)
WORD_SIZE == Pow2(WORD_BITS)
WORD_MAX == WORD_SIZE - 1

-----------------------------------------------------------------------------
(* Results: Rust's Result<T>, and a panic (an abort of the program) as an  *)
(* error of its own kind.                                                  *)

Ok(v) == [ok |-> TRUE, val |-> v, err |-> "", panic |-> FALSE]
Err(e) == [ok |-> FALSE, val |-> 0, err |-> e, panic |-> FALSE]
Panic(e) == [ok |-> FALSE, val |-> 0, err |-> e, panic |-> TRUE]
\* The ? operator: the value of an Ok, or the error returned at once.
Bind(r, F(_)) == IF r.ok THEN F(r.val) ELSE r
\* a value computed once and used under a name
With(v, F(_)) == F(v)

-----------------------------------------------------------------------------
(* Machine arithmetic *)

Abs(x) == IF x < 0 THEN -x ELSE x
Min(a, b) == IF a < b THEN a ELSE b
Max(a, b) == IF a > b THEN a ELSE b

\* Rust's integer division and remainder truncate toward zero.
TruncDiv(a, b) == IF (a < 0) = (b < 0) THEN Abs(a) \div Abs(b) ELSE -(Abs(a) \div Abs(b))
TruncRem(a, b) == a - b * TruncDiv(a, b)

\* i32 >> n is an arithmetic shift: the floor of the division.
Sar(a, n) == a \div Pow2(n)

RECURSIVE BitAnd(_, _)
BitAnd(a, b) ==
    IF a = 0 \/ b = 0 THEN 0
    ELSE (IF a % 2 = 1 /\ b % 2 = 1 THEN 1 ELSE 0) + 2 * BitAnd(a \div 2, b \div 2)

RECURSIVE BitOr(_, _)
BitOr(a, b) ==
    IF a = 0 THEN b
    ELSE IF b = 0 THEN a
    ELSE (IF a % 2 = 1 \/ b % 2 = 1 THEN 1 ELSE 0) + 2 * BitOr(a \div 2, b \div 2)

RECURSIVE BitXor(_, _)
BitXor(a, b) ==
    IF a = 0 THEN b
    ELSE IF b = 0 THEN a
    ELSE (IF (a % 2) # (b % 2) THEN 1 ELSE 0) + 2 * BitXor(a \div 2, b \div 2)

\* U256 operators of ruint wrap modulo 2^256.
wrapping_add(a, b) == (a + b) % U256_MOD
wrapping_sub(a, b) == (a - b) % U256_MOD
\* a * b mod m without leaving the 32-bit range of TLC.
mul_mod(a, b, m) ==
    LET h == Pow2(U256_BITS \div 2)
    IN  ((((a \div h) * b) % m) * h + (a % h) * b) % m
wrapping_mul(a, b) == mul_mod(a, b, U256_MOD)
wrapping_neg(a) == (U256_MOD - a) % U256_MOD
Shl(a, n) == wrapping_mul(a, Pow2(n))
Shr(a, n) == a \div Pow2(n)

\* I256 <-> U256 reinterpretation (from_raw / into_raw).
from_raw(u) == IF u > I256_MAX THEN u - U256_MOD ELSE u
into_raw(i) == i % U256_MOD
unsigned_abs(i) == Abs(i) % U256_MOD

-----------------------------------------------------------------------------
(* The build.  Native integer arithmetic (u128, i32) and the operators of  *)
(* I256 abort the program on overflow in a debug build and wrap in a       *)
(* release build; the model leaves the choice open.                        *)

VARIABLE build

-----------------------------------------------------------------------------
(* math/full_math.rs *)

mul_div(a, b, denominator) ==
    LET mm    == mul_mod(a, b, U256_MAX)
        prod0 == wrapping_mul(a, b)
        prod1 == wrapping_sub(wrapping_sub(mm, prod0), IF mm < prod0 THEN 1 ELSE 0)
    IN  IF prod1 = 0
        THEN IF denominator = 0
             THEN Err("Denominator is zero")
             ELSE Ok(prod0 \div denominator)
        ELSE IF denominator <= prod1
             THEN Err("Denomniator is less than prod one")
             ELSE LET remainder == mul_mod(a, b, denominator)
                      prod0a == wrapping_sub(prod0, remainder)
                      \* the borrow is taken against the already reduced prod0
                      prod1a == wrapping_sub(prod1, IF remainder > prod0a THEN 1 ELSE 0)
                      twos   == BitAnd(wrapping_neg(denominator), denominator)
                      den    == denominator \div twos
                      prod0b == prod0a \div twos
                      twosf  == wrapping_add(wrapping_sub(0, twos) \div twos, 1)
                      prod0c == BitOr(prod0b, wrapping_mul(prod1a, twosf))
                      inv0   == BitXor(wrapping_mul(3, den), 2)
                      step(inv) == wrapping_mul(inv, wrapping_sub(2, wrapping_mul(den, inv)))
                      inv6   == step(step(step(step(step(step(inv0))))))
                  IN  Ok(wrapping_mul(prod0c, inv6))

mul_div_rounding_up(a, b, denominator) ==
    Bind(mul_div(a, b, denominator), LAMBDA result :
        IF mul_mod(a, b, denominator) > 0
        THEN IF result < U256_MAX
             THEN Ok(result + 1)
             ELSE Err("Result is u256 max value")
        ELSE Ok(result))

(* math/unsafe_math.rs: ruint aborts on a division by zero *)
div_rounding_up(x, y) ==
    IF y = 0 THEN Panic("Division by zero")
    ELSE IF x % y = 0 THEN Ok(x \div y) ELSE Ok(wrapping_add(x \div y, 1))

(* math/low_gas_safe_math.rs *)
unsigned_add(x, y) ==
    IF x + y > U256_MAX THEN Err("Addition overflow") ELSE Ok(x + y)

signed_add(x, y) ==
    IF x + y > I256_MAX \/ x + y < I256_MIN THEN Err("Addition overflow") ELSE Ok(x + y)

signed_sub(x, y) ==
    IF x - y > I256_MAX \/ x - y < I256_MIN THEN Err("Subtraction underflow") ELSE Ok(x - y)

(* math/safe_cast.rs *)
to_int256(a) ==
    IF from_raw(a) < 0 THEN Err("Overflow when converting from U256 to I256")
    ELSE Ok(from_raw(a))

\* The operators + - of I256 (alloy's Signed): overflow aborts a debug
\* build and wraps in a release build.
i256_wrap(v) == from_raw(v % U256_MOD)
i256_op(v) ==
    IF v > I256_MAX \/ v < I256_MIN
    THEN IF build = "debug" THEN Panic("overflow") ELSE Ok(i256_wrap(v))
    ELSE Ok(v)

(* math/liquidity_math.rs *)
add_delta(x, y) ==
    IF y < 0
    THEN IF x - Abs(y) < 0 /\ build = "debug"
         THEN Panic("attempt to subtract with overflow")
         ELSE LET z == (x - Abs(y)) % U128_MOD
              IN  IF z < x THEN Ok(z) ELSE Err("Add delta error: LS")
    ELSE IF x + Abs(y) > U128_MAX /\ build = "debug"
         THEN Panic("attempt to add with overflow")
         ELSE LET z == (x + Abs(y)) % U128_MOD
              IN  IF z >= x THEN Ok(z) ELSE Err("Add delta error: LA")

(* math/bit_math.rs *)
RECURSIVE msb_of(_)
msb_of(x) == IF x <= 1 THEN 0 ELSE 1 + msb_of(x \div 2)
RECURSIVE lsb_of(_)
lsb_of(x) == IF x % 2 = 1 THEN 0 ELSE 1 + lsb_of(x \div 2)

most_significant_bit(x) ==
    IF x = 0 THEN Err("X can not be zero") ELSE Ok(msb_of(x))

least_significant_bits(x) ==
    IF x = 0 THEN Err("X can not be zero") ELSE Ok(lsb_of(x))

-----------------------------------------------------------------------------
(* tick_math.rs *)

MIN_TICK == -16
MAX_TICK == -MIN_TICK
MIN_SQRT_RATIO == 4
MAX_SQRT_RATIO == 1024
SQRT_10001 == 64
TICK_LOW == 3
TICK_HIGH == 219
\* the first fractional bit of log_2 the loop computes, and the last one
LOG2_FIRST_BIT == 3
LOG2_LAST_BIT == 1
\* Q128.128 -> Q128.96
RATIO_SHIFT == FIXED_POINT128_RESOLUTION - FIXED_POINT96_RESOLUTION

\* 2^8 / 2^(2^k / 4), k = 0 .. 4 : one constant per bit of |tick|
MAGIC_RATIOS == <<215, 181, 128, 64, 16>>

RECURSIVE ratio_bits(_, _, _)
ratio_bits(ratio, abs_tick, k) ==
    IF k > Len(MAGIC_RATIOS) THEN ratio
    ELSE ratio_bits(
            IF (abs_tick \div Pow2(k - 1)) % 2 = 1
            THEN Shr(wrapping_mul(ratio, MAGIC_RATIOS[k]), FIXED_POINT128_RESOLUTION)
            ELSE ratio,
            abs_tick, k + 1)

get_sqrt_ratio_at_tick(tick) ==
    LET abs_tick == Abs(tick)
    IN  IF abs_tick > MAX_TICK THEN Err("Tick out of bounds")
        ELSE LET r0 == IF abs_tick % 2 = 1 THEN MAGIC_RATIOS[1] ELSE Q128
                 r1 == ratio_bits(r0, abs_tick, 2)
                 ratio == IF tick > 0 THEN U256_MAX \div r1 ELSE r1
             IN  Ok(Shr(ratio, RATIO_SHIFT)
                    + (IF ratio % Pow2(RATIO_SHIFT) = 0 THEN 0 ELSE 1))

\* msb by binary search: f = 8, 4, 2, 1 against 2^f - 1
RECURSIVE msb_search(_, _, _)
msb_search(r, msb, f) ==
    IF f = 0 THEN msb
    ELSE LET ff == IF r > Pow2(f) - 1 THEN f ELSE 0
         IN  msb_search(Shr(r, ff), msb + ff, f \div 2)

\* the refinement loop: r = r*r >> 127; f = r >> 128; log_2 |= f << i; r >>= f
RECURSIVE log2_bits(_, _, _)
log2_bits(r, log_2, i) ==
    IF i < LOG2_LAST_BIT THEN log_2
    ELSE LET rr == Shr(wrapping_mul(r, r), FIXED_POINT128_RESOLUTION - 1)
             f  == Shr(rr, FIXED_POINT128_RESOLUTION)
         IN  log2_bits(Shr(rr, f), log_2 + f * Pow2(i), i - 1)

tick_choose_low(tick_low, tick_high, sqrt_price_x_96) == Ok(tick_low)

tick_choose(tick_low, tick_high, sqrt_price_x_96) ==
    IF tick_low = tick_high THEN Ok(tick_low)
    ELSE LET p == get_sqrt_ratio_at_tick(tick_high)
         IN  IF ~p.ok THEN p
             ELSE IF p.val <= sqrt_price_x_96 THEN Ok(tick_high) ELSE Ok(tick_low)

get_tick_at_sqrt_ratio(sqrt_price_x_96) ==
    IF ~(sqrt_price_x_96 >= MIN_SQRT_RATIO /\ sqrt_price_x_96 < MAX_SQRT_RATIO)
    THEN Err("The price is out of bounds")
    ELSE LET ratio == Shl(sqrt_price_x_96, RATIO_SHIFT)
             msb   == msb_search(ratio, 0, U256_BITS \div 2)
             r     == IF msb >= FIXED_POINT128_RESOLUTION
                      THEN Shr(ratio, msb - (FIXED_POINT128_RESOLUTION - 1))
                      ELSE Shl(ratio, (FIXED_POINT128_RESOLUTION - 1) - msb)
             log_2 == log2_bits(r, (msb - FIXED_POINT128_RESOLUTION) * Pow2(LOG2_FIRST_BIT + 1),
                                LOG2_FIRST_BIT)
             log_sqrt10001 == log_2 * SQRT_10001
             tick_low  == Sar(log_sqrt10001 - TICK_LOW, FIXED_POINT128_RESOLUTION)
             tick_high == Sar(log_sqrt10001 + TICK_HIGH, FIXED_POINT128_RESOLUTION)
         IN  tick_choose(tick_low, tick_high, sqrt_price_x_96)

-----------------------------------------------------------------------------
(* sqrt_price_math.rs *)

\* line 22-24: an amount of zero is refused
amount0_zero_check(sqrt_px96, amount) ==
    IF amount = 0 THEN Err("Amount is zero: no change") ELSE Ok(0)

get_next_sqrt_price_from_amount0_rounding_up(sqrt_px96, liquidity, amount, add) ==
    IF amount = 0 THEN amount0_zero_check(sqrt_px96, amount)
    ELSE
    LET numerator1 == Shl(liquidity, FIXED_POINT96_RESOLUTION)
        product    == wrapping_mul(amount, sqrt_px96)
    IN  IF add
        THEN IF product \div amount = sqrt_px96
             THEN mul_div_rounding_up(numerator1, sqrt_px96, wrapping_add(numerator1, product))
             ELSE Bind(unsigned_add(numerator1 \div sqrt_px96, amount),
                       LAMBDA result : div_rounding_up(numerator1, result))
        ELSE IF product \div amount = sqrt_px96 /\ numerator1 > product
             THEN Bind(mul_div_rounding_up(numerator1, sqrt_px96, wrapping_sub(numerator1, product)),
                       LAMBDA result :
                           IF result > U160_MAX
                           THEN Err("Sqrt price x96 is bigger than u160")
                           ELSE Ok(result))
             ELSE Err("Error getting sqrt price from amount 0 rounding up")

get_next_sqrt_price_from_amount1_rounding_down(sqrt_px96, liquidity, amount, add) ==
    IF add
    THEN Bind(IF amount <= U160_MAX
              THEN Ok(Shl(amount, FIXED_POINT96_RESOLUTION) \div liquidity)
              ELSE mul_div(amount, Q96, liquidity),
              LAMBDA quotient :
                  Bind(unsigned_add(sqrt_px96, quotient),
                       LAMBDA result :
                           IF result > U160_MAX
                           THEN Err("Sqrt price x96 is bigger than u160")
                           ELSE Ok(result)))
    ELSE Bind(IF amount <= U160_MAX
              THEN div_rounding_up(Shl(amount, FIXED_POINT96_RESOLUTION), liquidity)
              ELSE mul_div_rounding_up(amount, Q96, liquidity),
              LAMBDA quotient :
                  IF sqrt_px96 > quotient
                  THEN Ok(wrapping_sub(sqrt_px96, quotient))
                  ELSE Err("Price can not be lower than 0"))

get_next_sqrt_price_from_input(sqrt_px96, liquidity, amount_in, zero_for_one) ==
    IF sqrt_px96 > 0 /\ liquidity > 0
    THEN IF zero_for_one
         THEN get_next_sqrt_price_from_amount0_rounding_up(sqrt_px96, liquidity, amount_in, TRUE)
         ELSE get_next_sqrt_price_from_amount1_rounding_down(sqrt_px96, liquidity, amount_in, TRUE)
    ELSE Err("Price and liquidity should be greater than zero")

get_next_sqrt_price_from_output(sqrt_px96, liquidity, amount_out, zero_for_one) ==
    IF sqrt_px96 > 0 /\ liquidity > 0
    THEN IF zero_for_one
         THEN get_next_sqrt_price_from_amount1_rounding_down(sqrt_px96, liquidity, amount_out, FALSE)
         ELSE get_next_sqrt_price_from_amount0_rounding_up(sqrt_px96, liquidity, amount_out, FALSE)
    ELSE Err("Price and liquidity should be greater than zero")

get_amount0_delta_round_up(sqrt_ratio_ax96, sqrt_ratio_bx96, liquidity, round_up) ==
    LET a == Min(sqrt_ratio_ax96, sqrt_ratio_bx96)
        b == Max(sqrt_ratio_ax96, sqrt_ratio_bx96)
        numerator1 == Shl(liquidity, FIXED_POINT96_RESOLUTION)
        numerator2 == wrapping_sub(b, a)
    IN  IF a = 0 THEN Err("Sqrt ratio ax 96 can not be 0")
        ELSE IF round_up
             THEN Bind(mul_div_rounding_up(numerator1, numerator2, b),
                       LAMBDA v : div_rounding_up(v, a))
             ELSE Bind(mul_div(numerator1, numerator2, b),
                       LAMBDA v : Ok(v \div a))

get_amount1_delta_round_up(sqrt_ratio_ax96, sqrt_ratio_bx96, liquidity, round_up) ==
    LET a == Min(sqrt_ratio_ax96, sqrt_ratio_bx96)
        b == Max(sqrt_ratio_ax96, sqrt_ratio_bx96)
    IN  IF round_up
        THEN mul_div_rounding_up(liquidity, wrapping_sub(b, a), Q96)
        ELSE mul_div(liquidity, wrapping_sub(b, a), Q96)

-----------------------------------------------------------------------------
(* math/swap_math.rs *)

FEE_DENOMINATOR == 100

\* the result of compute_swap_step:
\* (sqrt_ratio_next_x96, amount_in, amount_out, fee_amount)
StepResult(next, amount_in, amount_out, fee_amount) ==
    [sqrt_ratio_next_x96 |-> next, amount_in |-> amount_in,
     amount_out |-> amount_out, fee_amount |-> fee_amount]

\* lines 19-66: the price after the step, with the amount computed on the way
swap_step_next_price(sqrt_ratio_current_x96, sqrt_ratio_target_x96, liquidity, amount_remaining, fee_pips) ==
    LET zero_for_one == sqrt_ratio_current_x96 >= sqrt_ratio_target_x96
        exact_in     == amount_remaining >= 0
    IN  IF exact_in
        THEN Bind(mul_div(into_raw(amount_remaining), FEE_DENOMINATOR - fee_pips, FEE_DENOMINATOR),
             LAMBDA amount_remaining_less_fee :
             Bind(IF zero_for_one
                  THEN get_amount0_delta_round_up(sqrt_ratio_target_x96, sqrt_ratio_current_x96, liquidity, TRUE)
                  ELSE get_amount1_delta_round_up(sqrt_ratio_current_x96, sqrt_ratio_target_x96, liquidity, TRUE),
             LAMBDA amount_in :
             IF amount_remaining_less_fee >= amount_in
             THEN Ok([next |-> sqrt_ratio_target_x96, amount_in |-> amount_in, amount_out |-> 0])
             ELSE Bind(get_next_sqrt_price_from_input(sqrt_ratio_current_x96, liquidity,
                                                      amount_remaining_less_fee, zero_for_one),
                  LAMBDA next : Ok([next |-> next, amount_in |-> amount_in, amount_out |-> 0]))))
        ELSE Bind(IF zero_for_one
                  THEN get_amount1_delta_round_up(sqrt_ratio_target_x96, sqrt_ratio_current_x96, liquidity, FALSE)
                  ELSE get_amount0_delta_round_up(sqrt_ratio_current_x96, sqrt_ratio_target_x96, liquidity, FALSE),
             LAMBDA amount_out :
             IF unsigned_abs(amount_remaining) >= amount_out
             THEN Ok([next |-> sqrt_ratio_target_x96, amount_in |-> 0, amount_out |-> amount_out])
             ELSE Bind(get_next_sqrt_price_from_output(sqrt_ratio_current_x96, liquidity,
                                                       unsigned_abs(amount_remaining), zero_for_one),
                  LAMBDA next : Ok([next |-> next, amount_in |-> 0, amount_out |-> amount_out])))

swap_step_fee_remainder(exact_in, sqrt_ratio_next_x96, sqrt_ratio_target_x96, amount_remaining, amount_in, fee_pips) ==
    IF exact_in
    THEN Ok(wrapping_sub(unsigned_abs(amount_remaining), amount_in))
    ELSE mul_div_rounding_up(amount_in, fee_pips, FEE_DENOMINATOR - fee_pips)

\* lines 93-97
swap_step_fee(exact_in, sqrt_ratio_next_x96, sqrt_ratio_target_x96, amount_remaining, amount_in, fee_pips) ==
    IF exact_in /\ sqrt_ratio_next_x96 # sqrt_ratio_target_x96
    THEN Ok(wrapping_sub(unsigned_abs(amount_remaining), amount_in))
    ELSE mul_div_rounding_up(amount_in, fee_pips, FEE_DENOMINATOR - fee_pips)

compute_swap_step(sqrt_ratio_current_x96, sqrt_ratio_target_x96, liquidity, amount_remaining, fee_pips) ==
    LET zero_for_one == sqrt_ratio_current_x96 >= sqrt_ratio_target_x96
        exact_in     == amount_remaining >= 0
    IN  Bind(swap_step_next_price(sqrt_ratio_current_x96, sqrt_ratio_target_x96, liquidity,
                                  amount_remaining, fee_pips),
        LAMBDA n :
        LET sqrt_ratio_next_x96 == n.next
            max == sqrt_ratio_target_x96 = sqrt_ratio_next_x96
        IN
        Bind(IF ~(max /\ exact_in)
             THEN IF zero_for_one
                  THEN get_amount0_delta_round_up(sqrt_ratio_next_x96, sqrt_ratio_current_x96, liquidity, TRUE)
                  ELSE get_amount1_delta_round_up(sqrt_ratio_current_x96, sqrt_ratio_next_x96, liquidity, TRUE)
             ELSE Ok(n.amount_in),
        LAMBDA amount_in :
        Bind(IF ~(max /\ ~exact_in)
             THEN IF zero_for_one
                  THEN get_amount1_delta_round_up(sqrt_ratio_next_x96, sqrt_ratio_current_x96, liquidity, FALSE)
                  ELSE get_amount0_delta_round_up(sqrt_ratio_current_x96, sqrt_ratio_next_x96, liquidity, FALSE)
             ELSE Ok(n.amount_out),
        LAMBDA amount_out0 :
        LET amount_out == IF ~exact_in /\ amount_out0 > unsigned_abs(amount_remaining)
                          THEN unsigned_abs(amount_remaining)
                          ELSE amount_out0
        IN
        Bind(swap_step_fee(exact_in, sqrt_ratio_next_x96, sqrt_ratio_target_x96,
                           amount_remaining, amount_in, fee_pips),
        LAMBDA fee_amount :
        Ok(StepResult(sqrt_ratio_next_x96, amount_in, amount_out, fee_amount))))))

-----------------------------------------------------------------------------
(* math/tick_bitmap.rs *)

BitNot(x) == U256_MAX - x

\* (word_pos, bit_pos) of a compressed tick: tick >> 8 and (tick % 256) as u8
position(tick) ==
    [word_pos |-> Sar(tick, WORD_BITS),
     bit_pos  |-> TruncRem(tick, WORD_SIZE) % WORD_SIZE]

compress_truncating(tick, tick_spacing) == TruncDiv(tick, tick_spacing)

\* lines 30-33: tick / tick_spacing rounded toward negative infinity
compress(tick, tick_spacing) ==
    IF tick < 0 /\ TruncRem(tick, tick_spacing) # 0
    THEN TruncDiv(tick, tick_spacing) - 1
    ELSE TruncDiv(tick, tick_spacing)

NextTick(next, initialized) == [next |-> next, initialized |-> initialized]

next_initialized_tick_within_one_word(pool_state, tick, lte) ==
    LET compressed == compress(tick, pool_state.tick_spacing)
    IN  IF lte
        THEN LET pos  == position(compressed)
                 mask == wrapping_add(wrapping_sub(Shl(1, pos.bit_pos), 1), Shl(1, pos.bit_pos))
             IN  IF pos.word_pos \notin DOMAIN pool_state.tick_bitmap
                 THEN Err("Word position not in tick bitmap")
                 ELSE LET masked == BitAnd(pool_state.tick_bitmap[pos.word_pos], mask)
                      IN  IF masked # 0
                          THEN Bind(most_significant_bit(masked),
                                    LAMBDA m : Ok(NextTick(
                                        (compressed - (pos.bit_pos - m)) * pool_state.tick_spacing,
                                        TRUE)))
                          ELSE Ok(NextTick((compressed - pos.bit_pos) * pool_state.tick_spacing,
                                           FALSE))
        ELSE LET pos  == position(compressed + 1)
                 mask == BitNot(wrapping_sub(Shl(1, pos.bit_pos), 1))
             IN  IF pos.word_pos \notin DOMAIN pool_state.tick_bitmap
                 THEN Err("Word position not in tick bitmap")
                 ELSE LET masked == BitAnd(pool_state.tick_bitmap[pos.word_pos], mask)
                      IN  IF masked # 0
                          THEN Bind(least_significant_bits(masked),
                                    LAMBDA l : Ok(NextTick(
                                        (compressed + 1 + (l - pos.bit_pos)) * pool_state.tick_spacing,
                                        TRUE)))
                          ELSE Ok(NextTick(
                                  (compressed + 1 + (WORD_MAX - pos.bit_pos)) * pool_state.tick_spacing,
                                  FALSE))

-----------------------------------------------------------------------------
(* pool.rs: the loaded windows of a PoolState *)

TICK_WINDOW_MID == 2
TICK_WINDOW_SIDE == 4
WORD_WINDOW == 1

MIN_WORD_POS == Sar(MIN_TICK, WORD_BITS)
MAX_WORD_POS == Sar(MAX_TICK, WORD_BITS)

\* math/tick.rs: the record of one tick (the fee growth fields are not read
\* by any swap)
Info(liquidity_gross, liquidity_net, initialized) ==
    [liquidity_gross |-> liquidity_gross, liquidity_net |-> liquidity_net,
     initialized |-> initialized]

\* lines 255-278: the list of ticks a loading pattern asks the ledger for
tick_list(tick, tick_spacing, load) ==
    LET compressed     == TruncDiv(tick, tick_spacing)
        min_compressed == TruncDiv(MIN_TICK, tick_spacing)
        max_compressed == TruncDiv(MAX_TICK, tick_spacing)
        range ==
            CASE load = "MID"  -> Max(min_compressed, compressed - TICK_WINDOW_MID) ..
                                  Min(max_compressed, compressed + TICK_WINDOW_MID)
              [] load = "HIGH" -> compressed .. Min(max_compressed, compressed + TICK_WINDOW_SIDE)
              [] load = "LOW"  -> Max(min_compressed, compressed - TICK_WINDOW_SIDE) .. compressed
              [] load = "FULL" -> min_compressed .. max_compressed
    IN  {c * tick_spacing : c \in range}

\* ledger is the function IPool::ticks of the pool contract
get_ticks(ledger, tick, tick_spacing, load) ==
    [t \in tick_list(tick, tick_spacing, load) |-> ledger[t]]

\* variant of update_ticks for C6: the reload also moves the pool's tick
update_ticks_moving_tick(ledger, pool_state, next_tick) ==
    LET load == IF next_tick < pool_state.slot0.tick THEN "LOW" ELSE "HIGH"
    IN  [pool_state EXCEPT
             !.ticks = get_ticks(ledger, next_tick, pool_state.tick_spacing, load),
             !.slot0.tick = next_tick]

\* variant of update_ticks for C7: the reload adds the new window to the
\* loaded one
update_ticks_adding(ledger, pool_state, next_tick) ==
    LET load == IF next_tick < pool_state.slot0.tick THEN "LOW" ELSE "HIGH"
        new  == get_ticks(ledger, next_tick, pool_state.tick_spacing, load)
    IN  [pool_state EXCEPT
             !.ticks = [t \in DOMAIN pool_state.ticks \cup DOMAIN new |->
                           IF t \in DOMAIN new THEN new[t] ELSE pool_state.ticks[t]]]

\* lines 314-327
update_ticks(ledger, pool_state, next_tick) ==
    LET load == IF next_tick < pool_state.slot0.tick THEN "LOW" ELSE "HIGH"
    IN  [pool_state EXCEPT !.ticks = get_ticks(ledger, next_tick, pool_state.tick_spacing, load)]

\* lines 336-355
word_pos_list(word_pos, load) ==
    CASE load = "MID"  -> Max(MIN_WORD_POS, word_pos - WORD_WINDOW) ..
                          Min(MAX_WORD_POS, word_pos + WORD_WINDOW)
      [] load = "LOW"  -> Max(MIN_WORD_POS, word_pos - WORD_WINDOW) .. word_pos
      [] load = "HIGH" -> word_pos .. Min(MAX_WORD_POS, word_pos + WORD_WINDOW)
      [] load = "FULL" -> MIN_WORD_POS .. MAX_WORD_POS

\* words is the function IPool::tickBitmap of the pool contract
get_tick_bitmap(words, word_pos, load) ==
    [w \in word_pos_list(word_pos, load) |-> words[w]]

\* variant of update_tick_bitmap for C22: the window is taken around the word
\* of the pool's tick
update_tick_bitmap_around_tick(words, pool_state, word_pos) ==
    LET compressed == compress(pool_state.slot0.tick, pool_state.tick_spacing)
        load == IF word_pos < Sar(compressed, WORD_BITS) THEN "LOW" ELSE "HIGH"
    IN  [pool_state EXCEPT
             !.tick_bitmap = get_tick_bitmap(words, Sar(compressed, WORD_BITS), load)]

\* lines 375-395
update_tick_bitmap(words, pool_state, word_pos) ==
    LET compressed == compress(pool_state.slot0.tick, pool_state.tick_spacing)
        load == IF word_pos < Sar(compressed, WORD_BITS) THEN "LOW" ELSE "HIGH"
    IN  [pool_state EXCEPT !.tick_bitmap = get_tick_bitmap(words, word_pos, load)]

-----------------------------------------------------------------------------
(* math/tick.rs *)

update_net_adding(liquidity_net, liquidity_delta, upper) == liquidity_net + liquidity_delta

\* lines 66-80: the new liquidity_net, before the range check of checked_sub
\* and checked_add
update_net(liquidity_net, liquidity_delta, upper) ==
    IF upper THEN liquidity_net - liquidity_delta ELSE liquidity_net + liquidity_delta

\* _update: the mapping after the call and what the call returns; what was
\* written before an error stays written
update(mapping, tick, liquidity_delta, upper, max_liquidity) ==
    LET inserted  == IF tick \in DOMAIN mapping THEN mapping
                     ELSE mapping @@ (tick :> Info(0, 0, FALSE))
        tick_info == inserted[tick]
        liquidity_gross_before == tick_info.liquidity_gross
        liquidity_gross_after  == add_delta(liquidity_gross_before, liquidity_delta)
    IN  IF ~liquidity_gross_after.ok
        THEN [mapping |-> inserted, r |-> liquidity_gross_after]
        ELSE IF liquidity_gross_after.val > max_liquidity
        THEN [mapping |-> inserted, r |-> Err("Liquidity gross larger than max liquidity")]
        ELSE LET flipped == (liquidity_gross_after.val = 0) # (liquidity_gross_before = 0)
                 grown   == [tick_info EXCEPT
                                !.initialized = IF liquidity_gross_before = 0 THEN TRUE ELSE @,
                                !.liquidity_gross = liquidity_gross_after.val]
                 val     == update_net(tick_info.liquidity_net, liquidity_delta, upper)
             IN  IF val > I128_MAX \/ val < I128_MIN
                 THEN [mapping |-> [inserted EXCEPT ![tick] = grown],
                       r |-> Err("Overflow occured in liquidity net calculation")]
                 ELSE [mapping |-> [inserted EXCEPT ![tick] = [grown EXCEPT !.liquidity_net = val]],
                       r |-> Ok(flipped)]

-----------------------------------------------------------------------------
(* swap.rs *)

SQRT_MAX_ITER == 62
IMPACT_SCALE == 1
IMPACT_DENOM == 10
MAX_PRICE_IMPACT == 100

\* lines 206-221: the Newton iteration; pow, -, * wrap and / aborts on a
\* zero divisor
RECURSIVE sqrt_loop(_, _, _)
sqrt_loop(a, xn, iter_count) ==
    LET squared == wrapping_mul(xn, xn)
        divisor == wrapping_mul(2, xn)
    IN  IF divisor = 0 THEN Panic("Division by zero")
        ELSE LET xm == wrapping_sub(xn, wrapping_sub(squared, a) \div divisor)
             IN  IF xm = xn
                 THEN IF a < squared THEN Ok(wrapping_sub(xn, 1))
                      ELSE IF a = squared THEN Ok(xn)
                      ELSE Ok(wrapping_add(xn, 1))
                 ELSE IF iter_count > SQRT_MAX_ITER
                      THEN Err("Sqrt calculation didn't converge")
                      ELSE sqrt_loop(a, xm, iter_count + 1)

sqrt(a) == IF a = 0 THEN Ok(a) ELSE sqrt_loop(a, a, 0)

\* variant of calc_sqrt_price_limit_from_price_impact for C26: the limit of a
\* zero-for-one swap is taken in both directions
calc_sqrt_price_limit_downward(sqrt_price_x96, price_impact, zero_for_one) ==
    Bind(sqrt(IMPACT_SCALE * (MAX_PRICE_IMPACT - price_impact)),
         LAMBDA root : mul_div(root, sqrt_price_x96, IMPACT_DENOM))

\* lines 186-196
calc_sqrt_price_limit_from_price_impact(sqrt_price_x96, price_impact, zero_for_one) ==
    Bind(sqrt(IMPACT_SCALE * (MAX_PRICE_IMPACT - price_impact)),
         LAMBDA root :
             IF zero_for_one
             THEN mul_div(root, sqrt_price_x96, IMPACT_DENOM)
             ELSE mul_div(IMPACT_DENOM, sqrt_price_x96, root))

SwapState(remaining, calculated, sqrt_price_x96, tick, liquidity) ==
    [amount_specified_remaining |-> remaining, amount_calculated |-> calculated,
     sqrt_price_x96 |-> sqrt_price_x96, tick |-> tick, liquidity |-> liquidity]

\* variant of swap_validate for C5: the lock is not looked at
swap_validate_ignoring_lock(pool_state, zero_for_one, amount_specified, sqrt_price_limit_x96) ==
    IF amount_specified = 0 THEN "Amount specified is zero, no swap"
    ELSE IF zero_for_one
         THEN IF ~(sqrt_price_limit_x96 < pool_state.slot0.sqrt_price_x96
                   /\ sqrt_price_limit_x96 > MIN_SQRT_RATIO)
              THEN "SPL" ELSE ""
         ELSE IF ~(sqrt_price_limit_x96 > pool_state.slot0.sqrt_price_x96
                   /\ sqrt_price_limit_x96 < MAX_SQRT_RATIO)
              THEN "SPL" ELSE ""

\* lines 64-82: the checks of swap, "" when all pass
swap_validate(pool_state, zero_for_one, amount_specified, sqrt_price_limit_x96) ==
    IF amount_specified = 0 THEN "Amount specified is zero, no swap"
    ELSE IF ~pool_state.slot0.unlocked THEN "Pool is locked"
    ELSE IF zero_for_one
         THEN IF ~(sqrt_price_limit_x96 < pool_state.slot0.sqrt_price_x96
                   /\ sqrt_price_limit_x96 > MIN_SQRT_RATIO)
              THEN "SPL" ELSE ""
         ELSE IF ~(sqrt_price_limit_x96 > pool_state.slot0.sqrt_price_x96
                   /\ sqrt_price_limit_x96 < MAX_SQRT_RATIO)
              THEN "SPL" ELSE ""

\* lines 86-92
swap_initial_state(pool_state, amount_specified) ==
    SwapState(amount_specified, 0, pool_state.slot0.sqrt_price_x96,
              pool_state.slot0.tick, pool_state.liquidity)

\* variant of swap_continues for C2: the loop ignores the price limit
swap_continues_until_spent(state, sqrt_price_limit_x96) ==
    state.amount_specified_remaining # 0

\* line 94
swap_continues(state, sqrt_price_limit_x96) ==
    state.amount_specified_remaining # 0 /\ state.sqrt_price_x96 # sqrt_price_limit_x96

\* lines 99-103
clamp_tick(tick_next) ==
    IF tick_next < MIN_TICK THEN MIN_TICK
    ELSE IF tick_next > MAX_TICK THEN MAX_TICK
    ELSE tick_next

\* lines 110-122
swap_target(zero_for_one, sqrt_price_next_x96, sqrt_price_limit_x96) ==
    IF zero_for_one
    THEN IF sqrt_price_next_x96 < sqrt_price_limit_x96
         THEN sqrt_price_limit_x96 ELSE sqrt_price_next_x96
    ELSE IF sqrt_price_next_x96 > sqrt_price_limit_x96
         THEN sqrt_price_limit_x96 ELSE sqrt_price_next_x96

\* variant of swap_amounts for C29: the amounts of an exact-output call are
\* updated as those of an exact-input call
swap_amounts_as_exact_input(state, exact_input, step) ==
    Bind(to_int256(wrapping_add(step.amount_in, step.fee_amount)), LAMBDA paid :
    Bind(i256_op(state.amount_specified_remaining - paid), LAMBDA remaining :
    Bind(to_int256(step.amount_out), LAMBDA out :
    Bind(signed_sub(state.amount_calculated, out), LAMBDA calculated :
    Ok([remaining |-> remaining, calculated |-> calculated])))))

\* lines 128-134: the two running amounts after a step
swap_amounts(state, exact_input, step) ==
    IF exact_input
    THEN Bind(to_int256(wrapping_add(step.amount_in, step.fee_amount)), LAMBDA paid :
         Bind(i256_op(state.amount_specified_remaining - paid), LAMBDA remaining :
         Bind(to_int256(step.amount_out), LAMBDA out :
         Bind(signed_sub(state.amount_calculated, out), LAMBDA calculated :
         Ok([remaining |-> remaining, calculated |-> calculated])))))
    ELSE Bind(to_int256(step.amount_out), LAMBDA out :
         Bind(i256_op(state.amount_specified_remaining + out), LAMBDA remaining :
         Bind(to_int256(wrapping_add(step.amount_in, step.fee_amount)), LAMBDA paid :
         Bind(signed_add(state.amount_calculated, paid), LAMBDA calculated :
         Ok([remaining |-> remaining, calculated |-> calculated])))))

\* the unary minus of i128
neg_i128_keeping(v) == Ok(v)

neg_i128(v) ==
    IF v = I128_MIN
    THEN IF build = "debug" THEN Panic("attempt to negate with overflow") ELSE Ok(v)
    ELSE Ok(-v)

\* the outcome of a step that may have reloaded the tick window: the pool
\* as the step leaves it, and the result of the step
Outcome(pool_state, r) == [pool_state |-> pool_state, r |-> r]

\* variant of cross_lookup for C23: the window is reloaded for every tick
\* crossed
cross_lookup_always_loading(ledger, pool_state, tick_next) ==
    LET loaded == update_ticks(ledger, pool_state, tick_next)
    IN  IF tick_next \in DOMAIN loaded.ticks
        THEN Outcome(loaded, Ok(loaded.ticks[tick_next].liquidity_net))
        ELSE Outcome(loaded, Err("Next tick out of allowed range"))

\* lines 138-145: the tick's liquidity_net, loading a new window when the
\* tick is not in the loaded one
cross_lookup(ledger, pool_state, tick_next) ==
    IF tick_next \in DOMAIN pool_state.ticks
    THEN Outcome(pool_state, Ok(pool_state.ticks[tick_next].liquidity_net))
    ELSE LET loaded == update_ticks(ledger, pool_state, tick_next)
         IN  IF tick_next \in DOMAIN loaded.ticks
             THEN Outcome(loaded, Ok(loaded.ticks[tick_next].liquidity_net))
             ELSE Outcome(loaded, Err("Next tick out of allowed range"))

\* variant of tick_after_cross for C8: the tick stays on the crossed tick
tick_after_cross_staying(zero_for_one, tick_next) == tick_next

\* line 151: the tick after the step has reached the next tick
tick_after_cross(zero_for_one, tick_next) ==
    IF zero_for_one THEN tick_next - 1 ELSE tick_next

\* lines 136-154: crossing the tick, or the tick of the new price
swap_move(ledger, pool_state, state, zero_for_one, tick_next, initialized, sqrt_price_start_x96, sqrt_price_next_x96) ==
    IF state.sqrt_price_x96 = sqrt_price_next_x96
    THEN LET tick == tick_after_cross(zero_for_one, tick_next)
         IN  IF initialized
             THEN LET found == cross_lookup(ledger, pool_state, tick_next)
                  IN  Outcome(found.pool_state,
                          Bind(found.r, LAMBDA net :
                          Bind(IF zero_for_one THEN neg_i128(net) ELSE Ok(net),
                          LAMBDA liquidity_net :
                          Bind(add_delta(state.liquidity, liquidity_net), LAMBDA liquidity :
                          Ok([state EXCEPT !.liquidity = liquidity, !.tick = tick])))))
             ELSE Outcome(pool_state, Ok([state EXCEPT !.tick = tick]))
    ELSE IF state.sqrt_price_x96 # sqrt_price_start_x96
         THEN Outcome(pool_state,
                  Bind(get_tick_at_sqrt_ratio(state.sqrt_price_x96), LAMBDA tick :
                  Ok([state EXCEPT !.tick = tick])))
         ELSE Outcome(pool_state, Ok(state))

\* lines 95-134: the step up to the new price and the new amounts
swap_step(pool_state, state, zero_for_one, exact_input, sqrt_price_limit_x96) ==
    Bind(next_initialized_tick_within_one_word(pool_state, state.tick, zero_for_one),
    LAMBDA found :
    LET tick_next == clamp_tick(found.next) IN
    Bind(get_sqrt_ratio_at_tick(tick_next), LAMBDA sqrt_price_next_x96 :
    Bind(compute_swap_step(state.sqrt_price_x96,
                           swap_target(zero_for_one, sqrt_price_next_x96, sqrt_price_limit_x96),
                           state.liquidity, state.amount_specified_remaining, pool_state.fee),
    LAMBDA step :
    Bind(swap_amounts(state, exact_input, step), LAMBDA amounts :
    Ok([state |-> [state EXCEPT !.sqrt_price_x96 = step.sqrt_ratio_next_x96,
                                !.amount_specified_remaining = amounts.remaining,
                                !.amount_calculated = amounts.calculated],
        tick_next |-> tick_next, initialized |-> found.initialized,
        sqrt_price_next_x96 |-> sqrt_price_next_x96])))))

\* variant of swap_return for C4: the two amounts change places
swap_return_swapped(state, zero_for_one, exact_input, amount_specified) ==
    Bind(i256_op(amount_specified - state.amount_specified_remaining), LAMBDA spent :
         IF zero_for_one = exact_input
         THEN Ok(<<state.amount_calculated, spent>>)
         ELSE Ok(<<spent, state.amount_calculated>>))

\* lines 157-161
swap_return(state, zero_for_one, exact_input, amount_specified) ==
    Bind(i256_op(amount_specified - state.amount_specified_remaining), LAMBDA spent :
         IF zero_for_one = exact_input
         THEN Ok(<<spent, state.amount_calculated>>)
         ELSE Ok(<<state.amount_calculated, spent>>))

\* lines 234-244: the checks of swap_slippage, "" when all pass
slippage_validate(pool_state, price_impact) ==
    IF price_impact > MAX_PRICE_IMPACT THEN "Price impact more than 100%"
    ELSE IF price_impact = 0 THEN "No swap needed for 0% impact"
    ELSE IF ~pool_state.slot0.unlocked THEN "Pool is locked"
    ELSE ""

\* lines 246-253
slippage_initial_state(pool_state) ==
    [amount_specified_remaining |-> I256_MAX, amount_calculated |-> 0,
     sqrt_price_x96 |-> pool_state.slot0.sqrt_price_x96,
     curr_exec_sqrt_price_x96 |-> pool_state.slot0.sqrt_price_x96,
     tick |-> pool_state.slot0.tick, liquidity |-> pool_state.liquidity]

\* line 257
slippage_continues(state, target_exec_sqrt_ratio_x96) ==
    /\ state.amount_specified_remaining # 0
    /\ state.curr_exec_sqrt_price_x96 # target_exec_sqrt_ratio_x96

\* the amounts of token0 and token1 swapped so far, as swap_slippage reads them
\* off the two running amounts (lines 282-286, 294, 313)
slippage_deltas(remaining, calculated, zero_for_one) ==
    IF zero_for_one
    THEN Bind(i256_op(I256_MAX - remaining), LAMBDA spent :
         Bind(i256_op(-calculated), LAMBDA got :
         Ok([delta_token0 |-> into_raw(spent), delta_token1 |-> into_raw(got)])))
    ELSE Bind(i256_op(-calculated), LAMBDA got :
         Bind(i256_op(I256_MAX - remaining), LAMBDA spent :
         Ok([delta_token0 |-> into_raw(got), delta_token1 |-> into_raw(spent)])))

\* lines 288, 399, 431: the execution price of two amounts
exec_sqrt_ratio(delta_token1, delta_token0) ==
    Bind(sqrt(delta_token1), LAMBDA root1 :
    Bind(sqrt(delta_token0), LAMBDA root0 :
    mul_div(root1, Q96, root0)))

\* lines 258-288: the step of swap_slippage up to the execution price of the
\* amounts after it
slippage_step(pool_state, state, zero_for_one) ==
    Bind(next_initialized_tick_within_one_word(pool_state, state.tick, zero_for_one),
    LAMBDA found :
    LET tick_next == clamp_tick(found.next) IN
    Bind(get_sqrt_ratio_at_tick(tick_next), LAMBDA sqrt_price_next_x96 :
    Bind(compute_swap_step(state.sqrt_price_x96, sqrt_price_next_x96, state.liquidity,
                           state.amount_specified_remaining, pool_state.fee),
    LAMBDA step :
    Bind(to_int256(wrapping_add(step.amount_in, step.fee_amount)), LAMBDA paid :
    Bind(i256_op(state.amount_specified_remaining - paid), LAMBDA next_remaining :
    Bind(to_int256(step.amount_out), LAMBDA out :
    Bind(signed_sub(state.amount_calculated, out), LAMBDA next_calculated :
    Bind(slippage_deltas(next_remaining, next_calculated, zero_for_one), LAMBDA d :
    Bind(exec_sqrt_ratio(d.delta_token1, d.delta_token0), LAMBDA next_exec :
    Ok([state |-> [state EXCEPT !.sqrt_price_x96 = step.sqrt_ratio_next_x96],
        tick_next |-> tick_next, initialized |-> found.initialized,
        sqrt_price_start_x96 |-> state.sqrt_price_x96,
        sqrt_price_next_x96 |-> sqrt_price_next_x96,
        next_remaining |-> next_remaining, next_calculated |-> next_calculated,
        next_exec |-> next_exec]))))))))))

\* lines 291, 310: the amounts of the step are taken as they are
slippage_keeps_step(zero_for_one, next_exec, target_exec_sqrt_ratio_x96) ==
    IF zero_for_one
    THEN next_exec > target_exec_sqrt_ratio_x96
    ELSE next_exec < target_exec_sqrt_ratio_x96

\* find_tick_at_slippage lines 369-371
walk_start(current_tick, next_tick, current_exec_sqrt_ratio_x96, delta_token0, delta_token1) ==
    [down |-> next_tick < current_tick,
     curr_exec_sqrt_ratio_x96 |-> current_exec_sqrt_ratio_x96,
     delta_token0 |-> delta_token0, delta_token1 |-> delta_token1,
     curr_tick |-> current_tick, n |-> 0,
     last_exec_sqrt_ratio_x96 |-> current_exec_sqrt_ratio_x96]

\* find_tick_at_slippage lines 372, 404
walk_continues(w, target_exec_sqrt_ratio_x96) ==
    IF w.down
    THEN w.curr_exec_sqrt_ratio_x96 > target_exec_sqrt_ratio_x96
    ELSE w.curr_exec_sqrt_ratio_x96 < target_exec_sqrt_ratio_x96

\* find_tick_at_slippage lines 373-400, 405-432: one iteration; the prices
\* are those of current_tick and the execution price is taken from the
\* delta_token1 the function was called with
walk_iteration(w, current_tick, delta_token1, liquidity) ==
    Bind(get_sqrt_ratio_at_tick(current_tick), LAMBDA curr_sqrt_ratio_x96 :
    Bind(get_sqrt_ratio_at_tick(IF w.down THEN current_tick - 1 ELSE current_tick + 1),
    LAMBDA next_sqrt_ratio_x96 :
    LET diff == IF next_sqrt_ratio_x96 > curr_sqrt_ratio_x96
                THEN wrapping_sub(next_sqrt_ratio_x96, curr_sqrt_ratio_x96)
                ELSE wrapping_sub(curr_sqrt_ratio_x96, next_sqrt_ratio_x96)
    IN
    Bind(mul_div(diff, liquidity, Q96), LAMBDA inc1 :
    Bind(mul_div(next_sqrt_ratio_x96, curr_sqrt_ratio_x96, Q96), LAMBDA product :
    Bind(mul_div(liquidity, diff, product), LAMBDA inc0 :
    LET d0 == wrapping_add(w.delta_token0, inc0) IN
    Bind(exec_sqrt_ratio(delta_token1, d0), LAMBDA exec :
    Ok([w EXCEPT !.delta_token1 = wrapping_add(w.delta_token1, inc1),
                 !.delta_token0 = d0,
                 !.curr_exec_sqrt_ratio_x96 = exec,
                 !.last_exec_sqrt_ratio_x96 = w.curr_exec_sqrt_ratio_x96,
                 !.curr_tick = IF w.down THEN w.curr_tick - 1 ELSE w.curr_tick + 1,
                 !.n = w.n + 1])))))))

\* lines 305, 325: the running amounts from the amounts the walk returns
slippage_after_walk(w, zero_for_one) ==
    IF zero_for_one
    THEN Bind(to_int256(w.delta_token0), LAMBDA d0 :
         Bind(i256_op(I256_MAX - d0), LAMBDA next_remaining :
         Bind(to_int256(w.delta_token1), LAMBDA d1 :
         Bind(i256_op(-d1), LAMBDA next_calculated :
         Ok([next_remaining |-> next_remaining, next_calculated |-> next_calculated])))))
    ELSE Bind(to_int256(w.delta_token1), LAMBDA d1 :
         Bind(i256_op(-d1), LAMBDA next_remaining :
         Bind(to_int256(w.delta_token0), LAMBDA d0 :
         Bind(i256_op(I256_MAX - d0), LAMBDA next_calculated :
         Ok([next_remaining |-> next_remaining, next_calculated |-> next_calculated])))))

\* lines 353-357
slippage_return(state, zero_for_one) ==
    Bind(i256_op(I256_MAX - state.amount_specified_remaining), LAMBDA spent :
         IF zero_for_one
         THEN Ok(<<spent, state.amount_calculated, state.curr_exec_sqrt_price_x96>>)
         ELSE Ok(<<state.amount_calculated, spent, state.curr_exec_sqrt_price_x96>>))

-----------------------------------------------------------------------------
(* The ledger: the pool contract the snapshot is read from.  A ledger is    *)
(* given by its positions; math/tick.rs keeps the books per tick.          *)

Position(tick_lower, tick_upper, liquidity) ==
    [tick_lower |-> tick_lower, tick_upper |-> tick_upper, liquidity |-> liquidity]

RECURSIVE Sum(_)
Sum(seq) == IF seq = <<>> THEN 0 ELSE Head(seq) + Sum(Tail(seq))

\* the Info of a tick after the updates of all positions: liquidity_gross
\* grows at both ends, liquidity_net grows at the lower and falls at the upper
ledger_info(positions, tick) ==
    LET gross == Sum([i \in 1 .. Len(positions) |->
                     IF tick \in {positions[i].tick_lower, positions[i].tick_upper}
                     THEN positions[i].liquidity ELSE 0])
        net   == Sum([i \in 1 .. Len(positions) |->
                     (IF tick = positions[i].tick_lower THEN positions[i].liquidity ELSE 0)
                   - (IF tick = positions[i].tick_upper THEN positions[i].liquidity ELSE 0)])
    IN  Info(gross, net, gross > 0)

\* the liquidity in range at a tick
ledger_liquidity(positions, tick) ==
    Sum([i \in 1 .. Len(positions) |->
        IF positions[i].tick_lower <= tick /\ tick < positions[i].tick_upper
        THEN positions[i].liquidity ELSE 0])

\* the ticks the contract can be asked for
SpacedTicks(tick_spacing) ==
    {c * tick_spacing : c \in TruncDiv(MIN_TICK, tick_spacing) .. TruncDiv(MAX_TICK, tick_spacing)}

\* a word of the contract's bitmap: bit b is set iff the tick of compressed
\* index word_pos * 2^WORD_BITS + b is initialized
RECURSIVE ledger_word(_, _, _, _)
ledger_word(ticks, tick_spacing, word_pos, b) ==
    IF b >= WORD_SIZE THEN 0
    ELSE LET t == (word_pos * WORD_SIZE + b) * tick_spacing
         IN  (IF t \in DOMAIN ticks /\ ticks[t].initialized THEN Pow2(b) ELSE 0)
             + ledger_word(ticks, tick_spacing, word_pos, b + 1)

Ledger(tick_spacing, fee, sqrt_price_x96, tick, unlocked, positions) ==
    LET ticks == [t \in SpacedTicks(tick_spacing) |-> ledger_info(positions, t)]
    IN  [tick_spacing |-> tick_spacing, fee |-> fee,
         slot0 |-> [sqrt_price_x96 |-> sqrt_price_x96, tick |-> tick, unlocked |-> unlocked],
         liquidity |-> ledger_liquidity(positions, tick),
         ticks |-> ticks,
         words |-> [w \in MIN_WORD_POS .. MAX_WORD_POS |->
                       ledger_word(ticks, tick_spacing, w, 0)]]

\* pool.rs lines 140-246: PoolState::load
load(l, loading_pattern) ==
    [tick_spacing |-> l.tick_spacing, fee |-> l.fee, slot0 |-> l.slot0,
     liquidity |-> l.liquidity,
     ticks |-> get_ticks(l.ticks, l.slot0.tick, l.tick_spacing, loading_pattern),
     tick_bitmap |-> get_tick_bitmap(l.words,
                        Sar(compress(l.slot0.tick, l.tick_spacing), WORD_BITS),
                        loading_pattern)]

Ledgers ==
    { Ledger(1, 1, 64, 0, TRUE, <<Position(-6, 6, 7), Position(-1, 1, 5)>>),
      Ledger(2, 3, 100, 2, TRUE, <<Position(-8, 8, 15), Position(0, 4, 10)>>),
      Ledger(1, 1, 70, 0, TRUE, <<Position(2, 5, 7)>>),
      Ledger(1, 1, 64, 0, FALSE, <<Position(-6, 6, 7), Position(-1, 1, 5)>>),
      Ledger(1, 1, 27, -5, TRUE, <<Position(-12, 4, 40)>>),
      Ledger(1, 1, 120, 3, TRUE, <<Position(-12, 12, 25)>>) }

-----------------------------------------------------------------------------
(* The reference: the swap of the pool contract, as the quoter runs it.    *)
(* Its arithmetic is exact (FullMath), a revert is an Err, and it reads    *)
(* the whole ledger.  Tick math and the bitmap search are those above.     *)

\* floor(a * b / denominator) and the remainder, computed without leaving
\* the integers TLC has; q.high tells that the quotient does not fit a word
ExactMulDiv(a, b, denominator) ==
    LET h  == Pow2(U256_BITS \div 2)
        t1 == (a \div h) * b
        t2 == (t1 % denominator) * h + (a % h) * b
    IN  [high |-> (t1 \div denominator) >= h
                  \/ (t1 \div denominator) * h + (t2 \div denominator) > U256_MAX,
         low  |-> ((t1 \div denominator) % h) * h + (t2 \div denominator),
         rem  |-> t2 % denominator]

RefMulDiv(a, b, denominator) ==
    IF denominator = 0 THEN Err("revert")
    ELSE With(ExactMulDiv(a, b, denominator), LAMBDA q :
              IF q.high THEN Err("revert") ELSE Ok(q.low))

RefMulDivRoundingUp(a, b, denominator) ==
    IF denominator = 0 THEN Err("revert")
    ELSE With(ExactMulDiv(a, b, denominator), LAMBDA q :
              IF q.high THEN Err("revert")
              ELSE IF q.rem > 0
                   THEN IF q.low < U256_MAX THEN Ok(q.low + 1) ELSE Err("revert")
                   ELSE Ok(q.low))

\* UnsafeMath.divRoundingUp: a division by zero yields zero
RefDivRoundingUp(x, y) ==
    IF y = 0 THEN 0 ELSE (x \div y) + (IF x % y > 0 THEN 1 ELSE 0)

RefToUint160(r) ==
    Bind(r, LAMBDA v : IF v > U160_MAX THEN Err("revert") ELSE Ok(v))

RefNextPriceFromAmount0(sqrt_px96, liquidity, amount, add) ==
    IF amount = 0 THEN Ok(sqrt_px96)
    ELSE
    LET numerator1 == Shl(liquidity, FIXED_POINT96_RESOLUTION)
        product    == wrapping_mul(amount, sqrt_px96)
        fits       == product \div amount = sqrt_px96
    IN  IF add
        THEN IF fits /\ numerator1 + product <= U256_MAX
             THEN Bind(RefMulDivRoundingUp(numerator1, sqrt_px96, numerator1 + product),
                       LAMBDA v : Ok(v % Pow2(U160_BITS)))
             ELSE IF (numerator1 \div sqrt_px96) + amount > U256_MAX THEN Err("revert")
             ELSE Ok(RefDivRoundingUp(numerator1, (numerator1 \div sqrt_px96) + amount)
                     % Pow2(U160_BITS))
        ELSE IF fits /\ numerator1 > product
             THEN RefToUint160(RefMulDivRoundingUp(numerator1, sqrt_px96, numerator1 - product))
             ELSE Err("revert")

RefNextPriceFromAmount1(sqrt_px96, liquidity, amount, add) ==
    IF add
    THEN Bind(IF amount <= U160_MAX
              THEN Ok(Shl(amount, FIXED_POINT96_RESOLUTION) \div liquidity)
              ELSE RefMulDiv(amount, Q96, liquidity),
              LAMBDA quotient :
                  IF sqrt_px96 + quotient > U160_MAX THEN Err("revert")
                  ELSE Ok(sqrt_px96 + quotient))
    ELSE Bind(IF amount <= U160_MAX
              THEN Ok(RefDivRoundingUp(Shl(amount, FIXED_POINT96_RESOLUTION), liquidity))
              ELSE RefMulDivRoundingUp(amount, Q96, liquidity),
              LAMBDA quotient :
                  IF sqrt_px96 > quotient THEN Ok(sqrt_px96 - quotient) ELSE Err("revert"))

RefNextPriceFromInput(sqrt_px96, liquidity, amount_in, zero_for_one) ==
    IF sqrt_px96 > 0 /\ liquidity > 0
    THEN IF zero_for_one
         THEN RefNextPriceFromAmount0(sqrt_px96, liquidity, amount_in, TRUE)
         ELSE RefNextPriceFromAmount1(sqrt_px96, liquidity, amount_in, TRUE)
    ELSE Err("revert")

RefAmount0Delta(sqrt_ratio_ax96, sqrt_ratio_bx96, liquidity, round_up) ==
    LET a == Min(sqrt_ratio_ax96, sqrt_ratio_bx96)
        b == Max(sqrt_ratio_ax96, sqrt_ratio_bx96)
        numerator1 == Shl(liquidity, FIXED_POINT96_RESOLUTION)
    IN  IF a = 0 THEN Err("revert")
        ELSE IF round_up
             THEN Bind(RefMulDivRoundingUp(numerator1, b - a, b),
                       LAMBDA v : Ok(RefDivRoundingUp(v, a)))
             ELSE Bind(RefMulDiv(numerator1, b - a, b), LAMBDA v : Ok(v \div a))

RefAmount1Delta(sqrt_ratio_ax96, sqrt_ratio_bx96, liquidity, round_up) ==
    LET a == Min(sqrt_ratio_ax96, sqrt_ratio_bx96)
        b == Max(sqrt_ratio_ax96, sqrt_ratio_bx96)
    IN  IF round_up
        THEN RefMulDivRoundingUp(liquidity, b - a, Q96)
        ELSE RefMulDiv(liquidity, b - a, Q96)

\* SwapMath.computeSwapStep for an exact input (amount_remaining >= 0)
RefComputeSwapStep(current, target, liquidity, amount_remaining, fee_pips) ==
    LET zero_for_one == current >= target IN
    Bind(RefMulDiv(amount_remaining, FEE_DENOMINATOR - fee_pips, FEE_DENOMINATOR),
    LAMBDA less_fee :
    Bind(IF zero_for_one THEN RefAmount0Delta(target, current, liquidity, TRUE)
                         ELSE RefAmount1Delta(current, target, liquidity, TRUE),
    LAMBDA to_target :
    Bind(IF less_fee >= to_target THEN Ok(target)
         ELSE RefNextPriceFromInput(current, liquidity, less_fee, zero_for_one),
    LAMBDA next :
    Bind(IF next = target THEN Ok(to_target)
         ELSE IF zero_for_one THEN RefAmount0Delta(next, current, liquidity, TRUE)
                              ELSE RefAmount1Delta(current, next, liquidity, TRUE),
    LAMBDA amount_in :
    Bind(IF zero_for_one THEN RefAmount1Delta(next, current, liquidity, FALSE)
                         ELSE RefAmount0Delta(current, next, liquidity, FALSE),
    LAMBDA amount_out :
    Bind(IF next # target THEN Ok(wrapping_sub(amount_remaining, amount_in))
         ELSE RefMulDivRoundingUp(amount_in, fee_pips, FEE_DENOMINATOR - fee_pips),
    LAMBDA fee_amount :
    Ok(StepResult(next, amount_in, amount_out, fee_amount))))))))

\* LiquidityMath.addDelta
RefAddDelta(x, y) ==
    With((x + y) % U128_MOD, LAMBDA z :
         IF y < 0 THEN (IF z < x THEN Ok(z) ELSE Err("revert"))
                  ELSE (IF z >= x THEN Ok(z) ELSE Err("revert")))

\* one iteration of the loop of UniswapV3Pool.swap for an exact input
RefIteration(full, state, zero_for_one, sqrt_price_limit_x96) ==
    Bind(next_initialized_tick_within_one_word(full, state.tick, zero_for_one),
    LAMBDA found :
    With(clamp_tick(found.next), LAMBDA tick_next :
    Bind(get_sqrt_ratio_at_tick(tick_next), LAMBDA sqrt_price_next_x96 :
    Bind(RefComputeSwapStep(state.sqrt_price_x96,
             swap_target(zero_for_one, sqrt_price_next_x96, sqrt_price_limit_x96),
             state.liquidity, state.amount_specified_remaining, full.fee),
    LAMBDA step :
    Bind(to_int256(wrapping_add(step.amount_in, step.fee_amount)), LAMBDA paid :
    Bind(to_int256(step.amount_out), LAMBDA out :
    Bind(signed_sub(state.amount_calculated, out), LAMBDA calculated :
    With([state EXCEPT !.sqrt_price_x96 = step.sqrt_ratio_next_x96,
                       !.amount_specified_remaining = i256_wrap(@ - paid),
                       !.amount_calculated = calculated],
    LAMBDA st :
    IF st.sqrt_price_x96 = sqrt_price_next_x96
    THEN With(IF zero_for_one THEN tick_next - 1 ELSE tick_next, LAMBDA tick :
         IF found.initialized
         THEN Bind(RefAddDelta(st.liquidity,
                       IF zero_for_one THEN -full.ticks[tick_next].liquidity_net
                                       ELSE full.ticks[tick_next].liquidity_net),
                   LAMBDA liquidity : Ok([st EXCEPT !.liquidity = liquidity, !.tick = tick]))
         ELSE Ok([st EXCEPT !.tick = tick]))
    ELSE IF st.sqrt_price_x96 # state.sqrt_price_x96
    THEN Bind(get_tick_at_sqrt_ratio(st.sqrt_price_x96),
              LAMBDA tick : Ok([st EXCEPT !.tick = tick]))
    ELSE Ok(st)))))))))

\* the states the reference loop goes through, and what the quoter returns
RECURSIVE RefLoop(_, _, _, _, _)
RefLoop(full, trace, zero_for_one, amount_in, sqrt_price_limit_x96) ==
    With(trace[Len(trace)], LAMBDA state :
    IF state.amount_specified_remaining = 0 \/ state.sqrt_price_x96 = sqrt_price_limit_x96
    THEN [trace |-> trace,
          result |-> Ok([amount_in |-> amount_in,
                         amount_out |-> unsigned_abs(state.amount_calculated)])]
    ELSE With(RefIteration(full, state, zero_for_one, sqrt_price_limit_x96), LAMBDA r :
         IF r.ok
         THEN RefLoop(full, Append(trace, r.val), zero_for_one, amount_in,
                      sqrt_price_limit_x96)
         ELSE [trace |-> trace, result |-> r]))

\* quoteExactInputSingle without a price limit on the ledger l
RefQuoteExactInputSingle(l, zero_for_one, amount_in) ==
    With(load(l, "FULL"), LAMBDA full :
    With(IF zero_for_one THEN MIN_SQRT_RATIO + 1 ELSE MAX_SQRT_RATIO - 1, LAMBDA limit :
    IF \/ amount_in > I256_MAX
       \/ amount_in = 0
       \/ ~full.slot0.unlocked
       \/ zero_for_one /\ ~(MIN_SQRT_RATIO < limit /\ limit < full.slot0.sqrt_price_x96)
       \/ ~zero_for_one /\ ~(full.slot0.sqrt_price_x96 < limit /\ limit < MAX_SQRT_RATIO)
    THEN [trace |-> <<>>, result |-> Err("revert")]
    ELSE RefLoop(full, <<SwapState(amount_in, 0, full.slot0.sqrt_price_x96, full.slot0.tick,
                                   full.liquidity)>>,
                 zero_for_one, amount_in, limit)))

-----------------------------------------------------------------------------
(* The state machine: a driver that loads a pool and calls the entry       *)
(* points one after the other; a loop iteration is one step.               *)

MaxAmount == 12
MaxCalls == 2
MaxWalk == 34

VARIABLES
    ledger,     \* the pool contract
    pool,       \* the PoolState
    pc,         \* "idle", "swap" / "slippage" (in the loop of swap / swap_slippage),
                \* "walk" (in the loop of find_tick_at_slippage), "done"
    call,       \* the entry point called and its arguments
    state,      \* the SwapState of the call
    result,     \* what the call returned
    iters,      \* loop iterations of the call so far
    prev,       \* the SwapState before the last iteration
    entry,      \* the PoolState when the call was made
    before,     \* the PoolState before the last reload of a window
    walk,       \* the locals of find_tick_at_slippage and of the step that called it
    ref,        \* the reference run of the call of simulate_exact_input_single
    crossed,    \* the initialized ticks the call has crossed, in order
    calls       \* calls made so far

vars == <<build, ledger, pool, pc, call, state, result, iters, prev, entry, before, walk,
          ref, crossed, calls>>

NoResult == [ok |-> FALSE, val |-> 0, err |-> "none", panic |-> FALSE]
NoState == SwapState(0, 0, 0, 0, 0)
NoCall == [name |-> "none", zero_for_one |-> FALSE, amount_specified |-> 0,
           sqrt_price_limit_x96 |-> 0, price_impact |-> 0]
NoWalk == [active |-> FALSE]
NoRef == [trace |-> <<>>, result |-> NoResult]

Amounts == (-MaxAmount .. MaxAmount) \cup {I256_MAX}
Limits == {MIN_SQRT_RATIO, MIN_SQRT_RATIO + 1, 45, 64, 91, 128,
           MAX_SQRT_RATIO - 1, MAX_SQRT_RATIO}
AmountsIn == (0 .. MaxAmount) \cup {I256_MAX, I256_MAX + 1}
PriceImpacts == {0, 1, 19, 50, 75, MAX_PRICE_IMPACT, MAX_PRICE_IMPACT + 1}

Init ==
    /\ build \in {"debug", "release"}
    /\ ledger \in Ledgers
    /\ pool = load(ledger, "MID")
    /\ pc = "idle"
    /\ call = NoCall
    /\ state = NoState
    /\ result = NoResult
    /\ iters = 0
    /\ prev = NoState
    /\ entry = pool
    /\ before = pool
    /\ walk = NoWalk
    /\ ref = NoRef
    /\ crossed = <<>>
    /\ calls = 0

\* swap.rs lines 57-92: the call of swap up to the loop
EnterOn(pool_state, name, zero_for_one, amount_specified, sqrt_price_limit_x96, price_impact) ==
    LET refused == swap_validate(pool_state, zero_for_one, amount_specified,
                                 sqrt_price_limit_x96)
    IN  /\ call' = [name |-> name, zero_for_one |-> zero_for_one,
                    amount_specified |-> amount_specified,
                    sqrt_price_limit_x96 |-> sqrt_price_limit_x96,
                    price_impact |-> price_impact]
        /\ calls' = calls + 1
        /\ iters' = 0
        /\ crossed' = <<>>
        /\ entry' = pool_state
        /\ before' = pool_state
        /\ IF refused # ""
           THEN /\ pc' = "done"
                /\ result' = Err(refused)
                /\ state' = NoState
                /\ prev' = NoState
           ELSE /\ pc' = "swap"
                /\ result' = NoResult
                /\ state' = swap_initial_state(pool_state, amount_specified)
                /\ prev' = swap_initial_state(pool_state, amount_specified)

Enter(name, zero_for_one, amount_specified, sqrt_price_limit_x96, price_impact) ==
    EnterOn(pool, name, zero_for_one, amount_specified, sqrt_price_limit_x96, price_impact)

\* pool.rs lines 487-493
SimulateEnter(zero_for_one, amount_specified) ==
    EnterOn(load(ledger, "MID"), "simulate_exact_input_single", zero_for_one,
            amount_specified,
            IF zero_for_one THEN MIN_SQRT_RATIO + 1 ELSE MAX_SQRT_RATIO - 1, 0)

\* a call that returns before it reaches swap
Refuse(pool_state, name, zero_for_one, price_impact, r) ==
    /\ call' = [name |-> name, zero_for_one |-> zero_for_one, amount_specified |-> 0,
                sqrt_price_limit_x96 |-> 0, price_impact |-> price_impact]
    /\ calls' = calls + 1
    /\ iters' = 0
    /\ crossed' = <<>>
    /\ entry' = pool_state
    /\ before' = pool_state
    /\ pc' = "done"
    /\ result' = r
    /\ state' = NoState
    /\ prev' = NoState

CallSwap ==
    /\ pc = "idle"
    /\ calls < MaxCalls
    /\ \E zero_for_one \in BOOLEAN, amount_specified \in Amounts,
          sqrt_price_limit_x96 \in Limits :
           Enter("swap", zero_for_one, amount_specified, sqrt_price_limit_x96, 0)
    /\ ref' = NoRef
    /\ UNCHANGED <<build, ledger, pool, walk>>

\* swap.rs lines 164-184
CallSwapPriceImpact ==
    /\ pc = "idle"
    /\ calls < MaxCalls
    /\ \E zero_for_one \in BOOLEAN, price_impact \in PriceImpacts :
           IF price_impact > MAX_PRICE_IMPACT
           THEN Refuse(pool, "swap_price_impact", zero_for_one, price_impact,
                       Err("Price impact more than 100%"))
           ELSE IF price_impact = 0
           THEN Refuse(pool, "swap_price_impact", zero_for_one, price_impact,
                       Err("No swap needed for 0% impact"))
           ELSE \E limit \in {calc_sqrt_price_limit_from_price_impact(
                                   pool.slot0.sqrt_price_x96, price_impact, zero_for_one)} :
                    IF ~limit.ok
                    THEN Refuse(pool, "swap_price_impact", zero_for_one, price_impact, limit)
                    ELSE Enter("swap_price_impact", zero_for_one, I256_MAX, limit.val,
                               price_impact)
    /\ ref' = NoRef
    /\ UNCHANGED <<build, ledger, pool, walk>>

\* pool.rs lines 476-493: a pool is loaded for the call, and swapped on
\* without a price limit
CallSimulateExactInputSingle ==
    /\ pc = "idle"
    /\ calls < MaxCalls
    /\ pool' = load(ledger, "MID")
    /\ \E zero_for_one \in BOOLEAN, amount_in \in AmountsIn :
           /\ ref' = RefQuoteExactInputSingle(ledger, zero_for_one, amount_in)
           /\ \E amount_specified \in {to_int256(amount_in)} :
                  IF ~amount_specified.ok
                  THEN Refuse(load(ledger, "MID"), "simulate_exact_input_single",
                              zero_for_one, 0, amount_specified)
                  ELSE SimulateEnter(zero_for_one, amount_specified.val)
    /\ UNCHANGED <<build, ledger, walk>>

\* pool.rs lines 375-395: the driver reloads the bitmap window
UpdateTickBitmap ==
    /\ pc = "idle"
    /\ calls < MaxCalls
    /\ \E word_pos \in MIN_WORD_POS .. MAX_WORD_POS :
           pool' = update_tick_bitmap(ledger.words, pool, word_pos)
    /\ before' = pool
    /\ calls' = calls + 1
    /\ UNCHANGED <<build, ledger, pc, call, state, result, iters, prev, entry, walk, ref,
                   crossed>>

\* pool.rs lines 495-497
simulate_result(r, zero_for_one, amount_in) ==
    Bind(r, LAMBDA amounts :
        Ok([amount_in |-> amount_in,
            amount_out |-> unsigned_abs(IF zero_for_one THEN amounts[2] ELSE amounts[1])]))

\* swap.rs lines 136-137: the step ends on the price of an initialized tick
crosses(st, initialized, sqrt_price_next_x96) ==
    st.sqrt_price_x96 = sqrt_price_next_x96 /\ initialized

\* the end of an iteration (swap.rs lines 136-154, 332-350): the tick is
\* crossed, or the tick of the new price is taken
Move(loop, st, tick_next, initialized, sqrt_price_start_x96, sqrt_price_next_x96) ==
    \E out \in {swap_move(ledger.ticks, pool, st, call.zero_for_one, tick_next, initialized,
                           sqrt_price_start_x96, sqrt_price_next_x96)} :
        /\ pool' = out.pool_state
        /\ before' = IF out.pool_state # pool THEN pool ELSE before
        /\ walk' = NoWalk
        /\ IF out.r.ok
           THEN /\ state' = out.r.val
                /\ crossed' = IF crosses(st, initialized, sqrt_price_next_x96)
                              THEN Append(crossed, tick_next) ELSE crossed
                /\ pc' = loop
                /\ UNCHANGED result
           ELSE /\ pc' = "done"
                /\ result' = out.r
                /\ state' = st
                /\ UNCHANGED crossed

\* a step of the call fails
Fail(r) ==
    /\ pc' = "done"
    /\ result' = r
    /\ UNCHANGED <<pool, before, state, walk, crossed>>

\* swap.rs lines 94-155: one iteration of the loop
SwapStep ==
    /\ pc = "swap"
    /\ swap_continues(state, call.sqrt_price_limit_x96)
    /\ iters' = iters + 1
    /\ prev' = state
    /\ \E s \in {swap_step(pool, state, call.zero_for_one, call.amount_specified > 0,
                           call.sqrt_price_limit_x96)} :
           IF ~s.ok THEN Fail(s)
           ELSE Move("swap", s.val.state, s.val.tick_next, s.val.initialized,
                     state.sqrt_price_x96, s.val.sqrt_price_next_x96)
    /\ UNCHANGED <<build, ledger, call, entry, ref, calls>>

\* swap.rs lines 157-161: the loop has ended
SwapReturn ==
    /\ pc = "swap"
    /\ ~swap_continues(state, call.sqrt_price_limit_x96)
    /\ pc' = "done"
    /\ \E r \in {swap_return(state, call.zero_for_one, call.amount_specified > 0,
                               call.amount_specified)} :
           result' = IF call.name = "simulate_exact_input_single"
                     THEN simulate_result(r, call.zero_for_one, call.amount_specified)
                     ELSE r
    /\ UNCHANGED <<build, ledger, pool, call, state, iters, prev, entry, before, walk, ref,
                   crossed, calls>>

\* swap.rs lines 227-255: the call of swap_slippage up to the loop; the
\* target is kept in the call's sqrt_price_limit_x96
CallSwapSlippage ==
    /\ pc = "idle"
    /\ calls < MaxCalls
    /\ \E zero_for_one \in BOOLEAN, price_impact \in PriceImpacts :
           \E refused \in {slippage_validate(pool, price_impact)},
              target \in {calc_sqrt_price_limit_from_price_impact(
                              pool.slot0.sqrt_price_x96, price_impact, zero_for_one)} :
               IF refused # ""
               THEN Refuse(pool, "swap_slippage", zero_for_one, price_impact, Err(refused))
               ELSE IF ~target.ok
               THEN Refuse(pool, "swap_slippage", zero_for_one, price_impact, target)
               ELSE /\ call' = [name |-> "swap_slippage", zero_for_one |-> zero_for_one,
                                amount_specified |-> I256_MAX,
                                sqrt_price_limit_x96 |-> target.val,
                                price_impact |-> price_impact]
                    /\ calls' = calls + 1
                    /\ iters' = 0
                    /\ crossed' = <<>>
                    /\ entry' = pool
                    /\ before' = pool
                    /\ pc' = "slippage"
                    /\ result' = NoResult
                    /\ state' = slippage_initial_state(pool)
                    /\ prev' = slippage_initial_state(pool)
    /\ ref' = NoRef
    /\ UNCHANGED <<build, ledger, pool, walk>>

\* swap.rs lines 257-351: one iteration of the loop of swap_slippage, up to
\* the call of find_tick_at_slippage when the step overshoots the target
SlippageStep ==
    /\ pc = "slippage"
    /\ slippage_continues(state, call.sqrt_price_limit_x96)
    /\ iters' = iters + 1
    /\ prev' = state
    /\ \E s \in {slippage_step(pool, state, call.zero_for_one)} :
           IF ~s.ok THEN Fail(s)
           ELSE IF slippage_keeps_step(call.zero_for_one, s.val.next_exec,
                                       call.sqrt_price_limit_x96)
           THEN Move("slippage", [s.val.state EXCEPT
                                  !.amount_specified_remaining = s.val.next_remaining,
                                  !.amount_calculated = s.val.next_calculated,
                                  !.curr_exec_sqrt_price_x96 = s.val.next_exec],
                     s.val.tick_next, s.val.initialized,
                     s.val.sqrt_price_start_x96, s.val.sqrt_price_next_x96)
           ELSE \E d \in {slippage_deltas(state.amount_specified_remaining,
                                           state.amount_calculated, call.zero_for_one)} :
                    IF ~d.ok THEN Fail(d)
                    ELSE /\ pc' = "walk"
                         /\ state' = s.val.state
                         /\ walk' = [active |-> TRUE,
                                     w |-> walk_start(state.tick, s.val.tick_next,
                                               state.curr_exec_sqrt_price_x96,
                                               d.val.delta_token0, d.val.delta_token1),
                                     delta_token1 |-> d.val.delta_token1,
                                     tick_next |-> s.val.tick_next,
                                     initialized |-> s.val.initialized,
                                     sqrt_price_start_x96 |-> s.val.sqrt_price_start_x96,
                                     sqrt_price_next_x96 |-> s.val.sqrt_price_next_x96]
                         /\ UNCHANGED <<pool, before, result, crossed>>
    /\ UNCHANGED <<build, ledger, call, entry, ref, calls>>

\* swap.rs lines 372-401, 404-433: one iteration of find_tick_at_slippage
WalkStep ==
    /\ pc = "walk"
    /\ walk_continues(walk.w, call.sqrt_price_limit_x96)
    /\ walk.w.n < MaxWalk
    /\ \E r \in {walk_iteration(walk.w, state.tick, walk.delta_token1, state.liquidity)} :
           IF r.ok
           THEN /\ walk' = [walk EXCEPT !.w = r.val]
                /\ UNCHANGED <<pc, result>>
           ELSE /\ pc' = "done"
                /\ result' = r
                /\ UNCHANGED walk
    /\ UNCHANGED <<build, ledger, pool, call, state, iters, prev, entry, before, ref, crossed,
                   calls>>

\* swap.rs lines 402, 434 and 305-350: find_tick_at_slippage returns and the
\* iteration of swap_slippage that called it ends
WalkReturn ==
    /\ pc = "walk"
    /\ ~walk_continues(walk.w, call.sqrt_price_limit_x96)
    /\ \E a \in {slippage_after_walk(walk.w, call.zero_for_one)} :
           IF ~a.ok THEN Fail(a)
           ELSE Move("slippage", [state EXCEPT
                                  !.amount_specified_remaining = a.val.next_remaining,
                                  !.amount_calculated = a.val.next_calculated,
                                  !.curr_exec_sqrt_price_x96 = call.sqrt_price_limit_x96],
                     walk.tick_next, walk.initialized,
                     walk.sqrt_price_start_x96, walk.sqrt_price_next_x96)
    /\ UNCHANGED <<build, ledger, call, iters, prev, entry, ref, calls>>

\* swap.rs lines 353-357
SlippageReturn ==
    /\ pc = "slippage"
    /\ ~slippage_continues(state, call.sqrt_price_limit_x96)
    /\ pc' = "done"
    /\ result' = slippage_return(state, call.zero_for_one)
    /\ UNCHANGED <<build, ledger, pool, call, state, iters, prev, entry, before, walk, ref,
                   crossed, calls>>

\* the driver takes the result
Finish ==
    /\ pc = "done"
    /\ pc' = "idle"
    /\ call' = NoCall
    /\ state' = NoState
    /\ result' = NoResult
    /\ iters' = 0
    /\ prev' = NoState
    /\ entry' = pool
    /\ before' = pool
    /\ walk' = NoWalk
    /\ ref' = NoRef
    /\ crossed' = <<>>
    /\ UNCHANGED <<build, ledger, pool, calls>>

Next ==
    \/ CallSwap
    \/ CallSwapPriceImpact
    \/ CallSimulateExactInputSingle
    \/ UpdateTickBitmap
    \/ CallSwapSlippage
    \/ SlippageStep
    \/ SlippageReturn
    \/ WalkStep
    \/ WalkReturn
    \/ SwapStep
    \/ SwapReturn
    \/ Finish

Spec == Init /\ [][Next]_vars

-----------------------------------------------------------------------------
(* The loop of swap with the lookup its call passes the provider to         *)
(* (swap.rs line 97).  That lookup asks for a new bitmap window when the    *)
(* word it needs is not loaded, and searches again.                         *)

\* math/tick_bitmap.rs lines 37 and 56: the word the search reads
lookup_word_pos(pool_state, tick, lte) ==
    LET compressed == compress(tick, pool_state.tick_spacing)
    IN  position(IF lte THEN compressed ELSE compressed + 1).word_pos

\* the lookup with the provider: a word that is not loaded is asked for with
\* update_tick_bitmap, once, and the search is made again
next_initialized_tick_loading(words, pool_state, tick, lte) ==
    IF lookup_word_pos(pool_state, tick, lte) \in DOMAIN pool_state.tick_bitmap
    THEN Outcome(pool_state, next_initialized_tick_within_one_word(pool_state, tick, lte))
    ELSE LET widened == update_tick_bitmap(words, pool_state,
                                           lookup_word_pos(pool_state, tick, lte))
         IN  Outcome(widened, next_initialized_tick_within_one_word(widened, tick, lte))

\* the end of an iteration whose lookup has left the pool as pool_state
MoveFrom(pool_state, st, tick_next, initialized, sqrt_price_start_x96, sqrt_price_next_x96) ==
    \E out \in {swap_move(ledger.ticks, pool_state, st, call.zero_for_one, tick_next,
                           initialized, sqrt_price_start_x96, sqrt_price_next_x96)} :
        /\ pool' = out.pool_state
        /\ before' = IF out.pool_state # pool THEN pool ELSE before
        /\ walk' = NoWalk
        /\ IF out.r.ok
           THEN /\ state' = out.r.val
                /\ crossed' = IF crosses(st, initialized, sqrt_price_next_x96)
                              THEN Append(crossed, tick_next) ELSE crossed
                /\ pc' = "swap"
                /\ UNCHANGED result
           ELSE /\ pc' = "done"
                /\ result' = out.r
                /\ state' = st
                /\ UNCHANGED crossed

\* swap.rs lines 94-155: one iteration of the loop, with that lookup
SwapStepLoading ==
    /\ pc = "swap"
    /\ swap_continues(state, call.sqrt_price_limit_x96)
    /\ iters' = iters + 1
    /\ prev' = state
    /\ \E found \in {next_initialized_tick_loading(ledger.words, pool, state.tick,
                                                    call.zero_for_one)} :
       \E s \in {swap_step(found.pool_state, state, call.zero_for_one,
                           call.amount_specified > 0, call.sqrt_price_limit_x96)} :
           IF ~s.ok
           THEN /\ pc' = "done"
                /\ result' = s
                /\ pool' = found.pool_state
                /\ before' = IF found.pool_state # pool THEN pool ELSE before
                /\ UNCHANGED <<state, walk, crossed>>
           ELSE MoveFrom(found.pool_state, s.val.state, s.val.tick_next, s.val.initialized,
                         state.sqrt_price_x96, s.val.sqrt_price_next_x96)
    /\ UNCHANGED <<build, ledger, call, entry, ref, calls>>

LoadingNext ==
    \/ CallSwap
    \/ SwapStepLoading
    \/ SwapReturn
    \/ Finish

LoadingSpec == Init /\ [][LoadingNext]_vars

-----------------------------------------------------------------------------
(* The functions of the math modules, called on their own.  A call is drawn *)
(* in the initial state and one action applies the function to it; the     *)
(* variables of the swap calls that a function does not use stay idle.     *)

MaxOperand == 4
MaxRadicand == 300
MaxStepLiquidity == 3
MaxStepAmount == 6
MaxSpacing == 2
MaxSearchTick == 9
MaxImpactPrice == 12
MaxUpdates == 3

\* U256 values: the small ones, those around 2^128 and 2^255, the largest
\* ones
Operands ==
    (0 .. MaxOperand) \cup {Q128 - 1, Q128, Q128 + 1} \cup {300, 1000}
    \cup {I256_MAX, I256_MAX + 1} \cup {U256_MAX - j : j \in 0 .. MaxOperand}

MulDivCalls ==
    {[name |-> "mul_div", a |-> a, b |-> b, denominator |-> denominator] :
        a \in Operands, b \in Operands, denominator \in Operands}

\* math/full_math.rs lines 12-85
CallMulDiv ==
    /\ pc = "idle"
    /\ call.name = "mul_div"
    /\ result' = mul_div(call.a, call.b, call.denominator)
    /\ pc' = "done"
    /\ calls' = calls + 1
    /\ UNCHANGED <<build, ledger, pool, call, state, iters, prev, entry, before, walk, ref,
                   crossed>>

SqrtCalls == {[name |-> "sqrt", a |-> a] : a \in (0 .. MaxRadicand) \cup Operands}

\* swap.rs lines 199-224
CallSqrt ==
    /\ pc = "idle"
    /\ call.name = "sqrt"
    /\ result' = sqrt(call.a)
    /\ pc' = "done"
    /\ calls' = calls + 1
    /\ UNCHANGED <<build, ledger, pool, call, state, iters, prev, entry, before, walk, ref,
                   crossed>>

GetSqrtRatioAtTickCalls ==
    {[name |-> "get_sqrt_ratio_at_tick", tick |-> tick] : tick \in MIN_TICK - 1 .. MAX_TICK + 1}

\* tick_math.rs lines 34-119
CallGetSqrtRatioAtTick ==
    /\ pc = "idle"
    /\ call.name = "get_sqrt_ratio_at_tick"
    /\ result' = get_sqrt_ratio_at_tick(call.tick)
    /\ pc' = "done"
    /\ calls' = calls + 1
    /\ UNCHANGED <<build, ledger, pool, call, state, iters, prev, entry, before, walk, ref,
                   crossed>>

GetTickAtSqrtRatioCalls ==
    {[name |-> "get_tick_at_sqrt_ratio", sqrt_price_x_96 |-> sqrt_price_x_96] :
        sqrt_price_x_96 \in MIN_SQRT_RATIO - 1 .. MAX_SQRT_RATIO}

\* tick_math.rs lines 121-225
CallGetTickAtSqrtRatio ==
    /\ pc = "idle"
    /\ call.name = "get_tick_at_sqrt_ratio"
    /\ result' = get_tick_at_sqrt_ratio(call.sqrt_price_x_96)
    /\ pc' = "done"
    /\ calls' = calls + 1
    /\ UNCHANGED <<build, ledger, pool, call, state, iters, prev, entry, before, walk, ref,
                   crossed>>

\* i128 values: the small ones and the extreme ones
LiquidityDeltas ==
    (-MaxOperand .. MaxOperand) \cup {-100, -50, 20, 100}
    \cup {I128_MIN + j : j \in 0 .. MaxOperand} \cup {I128_MAX - j : j \in 0 .. MaxOperand}

AddDeltaCalls ==
    {[name |-> "add_delta", x |-> x, y |-> y] :
        x \in (0 .. MaxOperand) \cup {100, I128_MAX, I128_MAX + 1}
              \cup {U128_MAX - j : j \in 0 .. MaxOperand},
        y \in LiquidityDeltas}

\* math/liquidity_math.rs lines 3-22
CallAddDelta ==
    /\ pc = "idle"
    /\ call.name = "add_delta"
    /\ result' = add_delta(call.x, call.y)
    /\ pc' = "done"
    /\ calls' = calls + 1
    /\ UNCHANGED <<build, ledger, pool, call, state, iters, prev, entry, before, walk, ref,
                   crossed>>

\* the prices are one below the range, the ends of the range, prices of
\* ticks and prices between ticks
ComputeSwapStepCalls ==
    {[name |-> "compute_swap_step", sqrt_ratio_current_x96 |-> current,
      sqrt_ratio_target_x96 |-> target, liquidity |-> liquidity,
      amount_remaining |-> amount_remaining, fee_pips |-> fee_pips] :
        current \in {1, MIN_SQRT_RATIO, MIN_SQRT_RATIO + 1, 64, 91, 128, 512,
                     MAX_SQRT_RATIO - 1},
        target \in {1, MIN_SQRT_RATIO, MIN_SQRT_RATIO + 1, 64, 91, 128, 512,
                    MAX_SQRT_RATIO - 1},
        liquidity \in (0 .. MaxStepLiquidity) \cup {12, 100, U128_MAX},
        amount_remaining \in (-MaxStepAmount .. MaxStepAmount)
                             \cup {300, -300, 1000, -1000, I256_MAX, I256_MIN},
        fee_pips \in {0, 1, 3, FEE_DENOMINATOR - 1}}

\* math/swap_math.rs lines 19-105
CallComputeSwapStep ==
    /\ pc = "idle"
    /\ call.name = "compute_swap_step"
    /\ result' = compute_swap_step(call.sqrt_ratio_current_x96, call.sqrt_ratio_target_x96,
                                 call.liquidity, call.amount_remaining, call.fee_pips)
    /\ pc' = "done"
    /\ calls' = calls + 1
    /\ UNCHANGED <<build, ledger, pool, call, state, iters, prev, entry, before, walk, ref,
                   crossed>>

\* pool states with every bitmap of the words -1 and 0
SearchPools ==
    {[load(Ledger(tick_spacing, 1, Q96, 0, TRUE, <<>>), "MID")
         EXCEPT !.tick_bitmap = tick_bitmap] :
        tick_spacing \in 1 .. MaxSpacing,
        tick_bitmap \in [-1 .. 0 -> 0 .. Pow2(WORD_SIZE) - 1]}

NextInitializedTickCalls ==
    {[name |-> "next_initialized_tick_within_one_word", tick |-> tick, lte |-> lte] :
        tick \in -MaxSearchTick .. MaxSearchTick, lte \in BOOLEAN}

\* math/tick_bitmap.rs lines 25-82
CallNextInitializedTickWithinOneWord ==
    /\ pc = "idle"
    /\ call.name = "next_initialized_tick_within_one_word"
    /\ result' = next_initialized_tick_within_one_word(pool, call.tick, call.lte)
    /\ pc' = "done"
    /\ calls' = calls + 1
    /\ UNCHANGED <<build, ledger, pool, call, state, iters, prev, entry, before, walk, ref,
                   crossed>>

\* pool states whose mapping holds one tick, or none; the liquidity_net of a
\* tick is a sum of +/- the amounts that liquidity_gross sums, and
\* initialized is never reset
UpdatePools ==
    {[load(Ledger(1, 1, Q96, 0, TRUE, <<>>), "MID") EXCEPT !.ticks = 0 :> info] :
        info \in {i \in {Info(gross, net, initialized) :
                            gross \in {0, 1, MaxOperand, 100, I128_MAX + 1, U128_MAX},
                            net \in {I128_MIN, -100, -1, 0, 1, 100, I128_MAX},
                            initialized \in BOOLEAN} :
                     /\ Abs(i.liquidity_net) <= i.liquidity_gross
                     /\ i.liquidity_gross > 0 => i.initialized}}
    \cup {[load(Ledger(1, 1, Q96, 0, TRUE, <<>>), "MID") EXCEPT !.ticks = <<>>]}

UpdateCalls ==
    {[name |-> "_update", tick |-> tick, liquidity_delta |-> liquidity_delta,
      upper |-> upper, max_liquidity |-> max_liquidity] :
        tick \in {0, 1}, liquidity_delta \in LiquidityDeltas, upper \in BOOLEAN,
        max_liquidity \in {MaxOperand, 100, U128_MAX}}

\* math/tick.rs lines 42-81
CallUpdate ==
    /\ pc = "idle"
    /\ call.name = "_update"
    /\ \E out \in {update(pool.ticks, call.tick, call.liquidity_delta, call.upper,
                           call.max_liquidity)} :
           /\ pool' = [pool EXCEPT !.ticks = out.mapping]
           /\ result' = out.r
    /\ pc' = "done"
    /\ calls' = calls + 1
    /\ UNCHANGED <<build, ledger, call, state, iters, prev, entry, before, walk, ref, crossed>>

\* math/tick.rs lines 42-81: one more _update on a mapping that successful
\* calls have built from an empty one
CallUpdateAgain ==
    /\ pc = "done"
    /\ call.name = "_update"
    /\ result.ok
    /\ DOMAIN entry.ticks = {}
    /\ calls < MaxUpdates
    /\ \E tick \in {0, 1}, liquidity_delta \in {-1, 0, 1}, upper \in BOOLEAN :
           /\ call' = [call EXCEPT !.tick = tick, !.liquidity_delta = liquidity_delta,
                                   !.upper = upper]
           /\ \E out \in {update(pool.ticks, tick, liquidity_delta, upper,
                                  call.max_liquidity)} :
                  /\ pool' = [pool EXCEPT !.ticks = out.mapping]
                  /\ result' = out.r
    /\ before' = pool
    /\ calls' = calls + 1
    /\ UNCHANGED <<build, ledger, pc, state, iters, prev, entry, walk, ref, crossed>>

\* prices, liquidities and amounts whose products stay in a word, leave it,
\* or leave it only when added to liquidity << 96
NextSqrtPriceFromAmount0Calls ==
    {[name |-> "get_next_sqrt_price_from_amount0_rounding_up", sqrt_px96 |-> sqrt_px96,
      liquidity |-> liquidity, amount |-> amount, add |-> add] :
        sqrt_px96 \in {1, MIN_SQRT_RATIO, MIN_SQRT_RATIO + 1, 64, 91, 128, 512,
                       MAX_SQRT_RATIO - 1},
        liquidity \in (0 .. MaxStepLiquidity) \cup {12, 100, U128_MAX},
        amount \in (0 .. MaxOperand) \cup {60, 300, 1000, 16000, U256_MAX - 1, U256_MAX},
        add \in BOOLEAN}

\* sqrt_price_math.rs lines 17-59
CallGetNextSqrtPriceFromAmount0RoundingUp ==
    /\ pc = "idle"
    /\ call.name = "get_next_sqrt_price_from_amount0_rounding_up"
    /\ result' = get_next_sqrt_price_from_amount0_rounding_up(call.sqrt_px96, call.liquidity,
                                                              call.amount, call.add)
    /\ pc' = "done"
    /\ calls' = calls + 1
    /\ UNCHANGED <<build, ledger, pool, call, state, iters, prev, entry, before, walk, ref,
                   crossed>>

\* the prices at both ends of the range and between them, every price impact
\* that swap_price_impact and swap_slippage let through
CalcSqrtPriceLimitCalls ==
    {[name |-> "calc_sqrt_price_limit_from_price_impact", sqrt_price_x96 |-> sqrt_price_x96,
      price_impact |-> price_impact, zero_for_one |-> zero_for_one] :
        sqrt_price_x96 \in (MIN_SQRT_RATIO - 1 .. MIN_SQRT_RATIO + MaxImpactPrice)
                           \cup {45, 64, 91, 128, 512, MAX_SQRT_RATIO - 1, MAX_SQRT_RATIO},
        price_impact \in 0 .. MAX_PRICE_IMPACT,
        zero_for_one \in BOOLEAN}

\* swap.rs lines 186-196
CallCalcSqrtPriceLimitFromPriceImpact ==
    /\ pc = "idle"
    /\ call.name = "calc_sqrt_price_limit_from_price_impact"
    /\ result' = calc_sqrt_price_limit_from_price_impact(call.sqrt_price_x96,
                                                         call.price_impact, call.zero_for_one)
    /\ pc' = "done"
    /\ calls' = calls + 1
    /\ UNCHANGED <<build, ledger, pool, call, state, iters, prev, entry, before, walk, ref,
                   crossed>>

\* a call of one function; the build matters to the functions that use the
\* operators of u128 and i128, the pool state to those that read it
MathInit ==
    /\ \/ call \in MulDivCalls
       \/ call \in SqrtCalls
       \/ call \in GetSqrtRatioAtTickCalls
       \/ call \in GetTickAtSqrtRatioCalls
       \/ call \in AddDeltaCalls
       \/ call \in ComputeSwapStepCalls
       \/ call \in NextInitializedTickCalls
       \/ call \in UpdateCalls
       \/ call \in NextSqrtPriceFromAmount0Calls
       \/ call \in CalcSqrtPriceLimitCalls
    /\ build \in IF call.name \in {"add_delta", "_update"} THEN {"debug", "release"}
                 ELSE {"release"}
    /\ ledger = Ledger(1, 1, Q96, 0, TRUE, <<>>)
    /\ pool \in IF call.name = "next_initialized_tick_within_one_word" THEN SearchPools
                ELSE IF call.name = "_update" THEN UpdatePools
                ELSE {load(ledger, "MID")}
    /\ pc = "idle"
    /\ state = NoState
    /\ result = NoResult
    /\ iters = 0
    /\ prev = NoState
    /\ entry = pool
    /\ before = pool
    /\ walk = NoWalk
    /\ ref = NoRef
    /\ crossed = <<>>
    /\ calls = 0

MathNext ==
    \/ CallMulDiv
    \/ CallSqrt
    \/ CallGetSqrtRatioAtTick
    \/ CallGetTickAtSqrtRatio
    \/ CallAddDelta
    \/ CallComputeSwapStep
    \/ CallNextInitializedTickWithinOneWord
    \/ CallUpdate
    \/ CallUpdateAgain
    \/ CallGetNextSqrtPriceFromAmount0RoundingUp
    \/ CallCalcSqrtPriceLimitFromPriceImpact

MathSpec == MathInit /\ [][MathNext]_vars

-----------------------------------------------------------------------------
(* The properties.                                                          *)

\* the call runs the loop of swap
InSwap == call.name \in {"swap", "swap_price_impact", "simulate_exact_input_single"}

\* C1: simulate_exact_input_single and the reference quote, run from the same
\* snapshot with the limit MIN_SQRT_RATIO + 1 or MAX_SQRT_RATIO - 1, go
\* through the same sequence of (sqrtPrice, tick, liquidity, amountRemaining,
\* amountCalculated) states and end with equal amounts.
C1_SimulationRefinesReference ==
    call.name = "simulate_exact_input_single" =>
        /\ pc = "swap" => (iters + 1 <= Len(ref.trace) /\ state = ref.trace[iters + 1])
        /\ pc = "done" => /\ result.ok = ref.result.ok
                          /\ result.ok => result.val = ref.result.val

\* C2: a loop iteration of swap is executed only in a state where
\* amount_specified_remaining # 0 and sqrt_price_x96 # sqrt_price_limit_x96,
\* and on a successful return the final state has amount_specified_remaining
\* = 0 or sqrt_price_x96 = sqrt_price_limit_x96.
C2_LoopRunsUntilSpentOrLimit ==
    InSwap =>
        /\ (pc \in {"swap", "done"} /\ iters > 0) =>
               /\ prev.amount_specified_remaining # 0
               /\ prev.sqrt_price_x96 # call.sqrt_price_limit_x96
        /\ (pc = "done" /\ result.ok) =>
               \/ state.amount_specified_remaining = 0
               \/ state.sqrt_price_x96 = call.sqrt_price_limit_x96

\* a swap of several iterations has returned on its price limit with some of
\* the amount left
C2_ReturnedOnLimit ==
    /\ call.name = "swap" /\ pc = "done" /\ result.ok /\ iters >= 2
    /\ state.sqrt_price_x96 = call.sqrt_price_limit_x96
    /\ state.amount_specified_remaining # 0

\* an exact-input call of swap on a pool with liquidity, past its checks
C3_Call ==
    /\ call.name = "swap" /\ call.amount_specified > 0 /\ entry.liquidity > 0
    /\ pc \in {"swap", "done"} /\ state # NoState

\* the call has crossed one initialized tick, one tick_spacing away from the
\* pool's tick
C3_Crossed ==
    /\ Len(crossed) = 1
    /\ Abs(crossed[1] - entry.slot0.tick) = entry.tick_spacing

C3_Net ==
    IF call.zero_for_one THEN - ledger.ticks[crossed[1]].liquidity_net
    ELSE ledger.ticks[crossed[1]].liquidity_net

\* C3: an exact-input swap, in either direction, that crosses the single
\* initialized tick one tick_spacing away, with positive liquidity on both
\* sides, all data loaded and the price limit not reached: the active
\* liquidity is the pool's before the cross and the pool's adjusted by the
\* tick's liquidity_net after it, and the call returns successfully with
\* amount_specified_remaining = 0, never with an error.
C3_CrossesOneTick ==
    C3_Call =>
        /\ crossed = <<>> => state.liquidity = entry.liquidity
        /\ C3_Crossed => state.liquidity = entry.liquidity + C3_Net
        /\ (/\ C3_Crossed
            /\ pc = "done"
            /\ state.liquidity > 0
            /\ state.sqrt_price_x96 # call.sqrt_price_limit_x96
            /\ ~(~result.ok /\ result.err = "Word position not in tick bitmap")) =>
               (result.ok /\ state.amount_specified_remaining = 0)

\* C4: on every successful return of swap, exact-input or exact-output, the
\* input token's amount is >= 0 and the output token's amount is <= 0:
\* amount0 >= 0 >= amount1 when zero_for_one, amount1 >= 0 >= amount0
\* otherwise.
C4_SignConvention ==
    (call.name \in {"swap", "swap_price_impact"} /\ pc = "done" /\ result.ok) =>
        IF call.zero_for_one
        THEN result.val[1] >= 0 /\ result.val[2] <= 0
        ELSE result.val[2] >= 0 /\ result.val[1] <= 0

\* an exact-output swap of several iterations, one-for-zero, has returned
\* both amounts
C4_ExactOutputReturned ==
    /\ call.name = "swap" /\ pc = "done" /\ result.ok /\ iters >= 2
    /\ call.amount_specified < 0 /\ ~call.zero_for_one
    /\ result.val[1] < 0 /\ result.val[2] > 0

\* the arguments of the call fail a check of swap
InvalidSwap ==
    \/ call.amount_specified = 0
    \/ ~entry.slot0.unlocked
    \/ IF call.zero_for_one
       THEN ~(MIN_SQRT_RATIO < call.sqrt_price_limit_x96
              /\ call.sqrt_price_limit_x96 < entry.slot0.sqrt_price_x96)
       ELSE ~(entry.slot0.sqrt_price_x96 < call.sqrt_price_limit_x96
              /\ call.sqrt_price_limit_x96 < MAX_SQRT_RATIO)

InvalidImpact == call.price_impact = 0 \/ call.price_impact > MAX_PRICE_IMPACT

\* C5: swap with amount_specified = 0, a locked pool or a price limit on
\* the wrong side, and swap_price_impact and swap_slippage with price_impact
\* = 0 or price_impact > 100, return an error before any loop iteration and
\* before any tick or bitmap data is read or reloaded.
C5_RejectedBeforeTheLoop ==
    (\/ call.name = "swap" /\ InvalidSwap
     \/ call.name \in {"swap_price_impact", "swap_slippage"} /\ InvalidImpact) =>
        /\ pc = "done"
        /\ ~result.ok
        /\ ~result.panic
        /\ iters = 0
        /\ state = NoState
        /\ ~walk.active
        /\ pool = entry

\* swap has refused a locked pool whose other arguments pass the checks
C5_LockedPoolRefused ==
    /\ call.name = "swap" /\ pc = "done" /\ result.err = "Pool is locked"
    /\ call.amount_specified # 0
    /\ IF call.zero_for_one
       THEN /\ MIN_SQRT_RATIO < call.sqrt_price_limit_x96
            /\ call.sqrt_price_limit_x96 < entry.slot0.sqrt_price_x96
       ELSE /\ entry.slot0.sqrt_price_x96 < call.sqrt_price_limit_x96
            /\ call.sqrt_price_limit_x96 < MAX_SQRT_RATIO

\* the current state of a pool
Current(p) == <<p.slot0, p.liquidity, p.fee, p.tick_spacing>>

\* C6: swap, swap_price_impact and swap_slippage never change slot0,
\* liquidity, fee and tick_spacing of the PoolState, whether the call
\* succeeds or fails; the progress lives in the call's own state, so every
\* call starts from the same price, tick and liquidity.
C6_CurrentStateUnchanged ==
    /\ Current(pool) = Current(ledger)
    /\ Current(entry) = Current(ledger)
    /\ (pc \in {"swap", "slippage"} /\ iters = 0) =>
           /\ state.sqrt_price_x96 = ledger.slot0.sqrt_price_x96
           /\ state.tick = ledger.slot0.tick
           /\ state.liquidity = ledger.liquidity

\* a swap that reloaded the tick window has returned, its own tick and
\* liquidity away from the pool's
C6_SwapMovedItsOwnState ==
    /\ call.name = "swap" /\ pc = "done" /\ result.ok
    /\ pool.ticks # entry.ticks
    /\ state.tick # pool.slot0.tick /\ state.liquidity # pool.liquidity

C8_TickMovesStrictly ==
    (InSwap /\ pc \in {"swap", "done"} /\ iters > 0) =>
        /\ iters <= MAX_TICK - MIN_TICK + 1
        /\ state.tick \in (MIN_TICK - 1) .. MAX_TICK
        /\ (/\ pc = "swap"
            /\ state.amount_specified_remaining # 0
            /\ state.sqrt_price_x96 # call.sqrt_price_limit_x96) =>
               IF call.zero_for_one THEN state.tick < prev.tick ELSE state.tick > prev.tick

\* a zero-for-one swap that has crossed a tick is three iterations into its
\* loop and goes on
C8_LongSwap ==
    /\ InSwap /\ pc = "swap" /\ iters >= 3 /\ call.zero_for_one /\ crossed # <<>>
    /\ state.amount_specified_remaining # 0
    /\ state.sqrt_price_x96 # call.sqrt_price_limit_x96

\* C9: find_tick_at_slippage stops after at most MAX_TICK - MIN_TICK
\* iterations, and in every iteration the cumulative execution price moves
\* toward the target (down when walking down, up when walking up).
C9_WalkTerminates ==
    pc = "walk" =>
        /\ walk.w.n <= MAX_TICK - MIN_TICK
        /\ walk.w.n > 0 =>
               IF call.zero_for_one
               THEN walk.w.curr_exec_sqrt_ratio_x96 <= walk.w.last_exec_sqrt_ratio_x96
               ELSE walk.w.curr_exec_sqrt_ratio_x96 >= walk.w.last_exec_sqrt_ratio_x96

\* the integer square root
Isqrt(n) == CHOOSE r \in 0 .. Pow2(U256_BITS \div 2) : r * r <= n /\ n < (r + 1) * (r + 1)

\* C10: when swap_slippage returns Ok(((amount0, amount1), execPrice)),
\* execPrice = floor(isqrt(|amount1|) * 2^96 / isqrt(|amount0|)), the input
\* token's amount is >= 0 and the output token's amount is <= 0, and
\* execPrice has reached the target derived from price_impact.
C10_ExecPriceOfReturnedAmounts ==
    (call.name = "swap_slippage" /\ pc = "done" /\ result.ok) =>
        /\ Isqrt(Abs(result.val[1])) # 0
        /\ result.val[3] = (Isqrt(Abs(result.val[2])) * Q96) \div Isqrt(Abs(result.val[1]))
        /\ IF call.zero_for_one
           THEN result.val[1] >= 0 /\ result.val[2] <= 0
           ELSE result.val[2] >= 0 /\ result.val[1] <= 0
        /\ IF call.zero_for_one
           THEN result.val[3] <= call.sqrt_price_limit_x96
           ELSE result.val[3] >= call.sqrt_price_limit_x96


\* C11: swap_price_impact called with a price impact of 100 runs the loop of
\* swap with the limit MIN_SQRT_RATIO + 1 (zero for one) or
\* MAX_SQRT_RATIO - 1 (one for zero) and returns amounts with the final price
\* on that bound; it does not fail with "SPL" or on a zero denominator.
C11_FullImpactReachesBound ==
    (pc = "done" /\ call.name = "swap_price_impact"
     /\ call.price_impact = MAX_PRICE_IMPACT)
    => /\ result.ok
       /\ call.sqrt_price_limit_x96 = IF call.zero_for_one THEN MIN_SQRT_RATIO + 1
                                       ELSE MAX_SQRT_RATIO - 1
       /\ state.sqrt_price_x96 = call.sqrt_price_limit_x96

\* C12: mul_div(a, b, d) returns floor(a * b / d) when d # 0 and the quotient
\* fits 256 bits, the 512-bit path included, and an error (never a value)
\* when d = 0 or the quotient does not fit.
C12_MulDivExact ==
    (pc = "done" /\ call.name = "mul_div")
    => IF call.denominator # 0
          /\ ~ExactMulDiv(call.a, call.b, call.denominator).high
       THEN /\ result.ok
            /\ result.val = ExactMulDiv(call.a, call.b, call.denominator).low
       ELSE ~result.ok /\ ~result.panic

\* C13: sqrt(a) ends within its iteration bound and returns r with
\* r * r <= a < (r + 1) * (r + 1), for every 256-bit a.
C13_SqrtIsFloor ==
    (pc = "done" /\ call.name = "sqrt")
    => /\ result.ok
       /\ result.val * result.val <= call.a
       /\ call.a < (result.val + 1) * (result.val + 1)

C15_AddDeltaChecked ==
    (pc = "done" /\ call.name = "add_delta")
    => result = IF call.x + call.y < 0 THEN Err("Add delta error: LS")
                ELSE IF call.x + call.y > U128_MAX THEN Err("Add delta error: LA")
                ELSE Ok(call.x + call.y)

\* C16: compute_swap_step with the target price equal to the current price,
\* a current price above zero, any liquidity, an amount of either sign and a
\* fee below the denominator returns the current price and zero for
\* amount_in, amount_out and fee_amount.
C16_StepToCurrentPriceIsEmpty ==
    (pc = "done" /\ call.name = "compute_swap_step"
     /\ call.sqrt_ratio_target_x96 = call.sqrt_ratio_current_x96
     /\ call.sqrt_ratio_current_x96 > 0
     /\ call.fee_pips < FEE_DENOMINATOR)
    => result = Ok(StepResult(call.sqrt_ratio_current_x96, 0, 0, 0))

\* such a step has been made with an exact-output amount
C16_EmptyStepMade ==
    /\ pc = "done"
    /\ call.name = "compute_swap_step"
    /\ call.sqrt_ratio_target_x96 = call.sqrt_ratio_current_x96
    /\ call.amount_remaining < 0
    /\ call.liquidity > 0
    /\ call.fee_pips > 0
    /\ result = Ok(StepResult(call.sqrt_ratio_current_x96, 0, 0, 0))

\* C17: a successful compute_swap_step takes no more than what remains:
\* amount_in + fee_amount <= amount_remaining for an exact input
\* (amount_remaining >= 0, so that amount_remaining - amount_in does not
\* underflow) and amount_out <= |amount_remaining| for an exact output.
C17_StepWithinRemaining ==
    (pc = "done" /\ call.name = "compute_swap_step" /\ result.ok)
    => IF call.amount_remaining >= 0
       THEN result.val.amount_in + result.val.fee_amount <= call.amount_remaining
       ELSE result.val.amount_out <= -call.amount_remaining

\* the bit of a compressed tick in the bitmap of the pool state
BitSet(k) ==
    /\ k \div WORD_SIZE \in DOMAIN pool.tick_bitmap
    /\ (pool.tick_bitmap[k \div WORD_SIZE] \div Pow2(k % WORD_SIZE)) % 2 = 1

\* C18: with the bitmap word of the searched position loaded,
\* next_initialized_tick_within_one_word(tick, lte) returns (next,
\* initialized) with next a multiple of the tick spacing in the word of the
\* searched position, next <= tick when lte and next > tick otherwise, at most
\* a word of spacings away; when initialized, the bit of next is set and no
\* nearer bit in that direction is; when not initialized, no bit in that
\* direction is set in the word and next is the boundary of the word.
C18_NextTickWithinWord ==
    (pc = "done" /\ call.name = "next_initialized_tick_within_one_word")
    => LET spacing  == pool.tick_spacing
           c        == call.tick \div spacing
           searched == IF call.lte THEN c ELSE c + 1
           w        == searched \div WORD_SIZE
           lowest   == w * WORD_SIZE
           highest  == w * WORD_SIZE + WORD_SIZE - 1
           n        == result.val.next \div spacing
       IN  IF w \notin DOMAIN pool.tick_bitmap THEN ~result.ok
           ELSE /\ result.ok
                /\ result.val.next % spacing = 0
                /\ n \in lowest .. highest
                /\ IF call.lte THEN result.val.next <= call.tick
                   ELSE result.val.next > call.tick
                /\ Abs(result.val.next - call.tick) <= WORD_SIZE * spacing
                /\ IF result.val.initialized
                   THEN /\ BitSet(n)
                        /\ \A k \in lowest .. highest :
                               (IF call.lte THEN n < k /\ k <= c ELSE c < k /\ k < n)
                               => ~BitSet(k)
                   ELSE /\ \A k \in lowest .. highest :
                               (IF call.lte THEN k <= c ELSE k > c) => ~BitSet(k)
                        /\ n = IF call.lte THEN lowest ELSE highest

\* a search upward from a negative tick between two usable ticks has found
\* a set bit beyond an unset one
C18_FoundAbove ==
    /\ pc = "done"
    /\ call.name = "next_initialized_tick_within_one_word"
    /\ ~call.lte
    /\ call.tick < 0
    /\ call.tick % pool.tick_spacing # 0
    /\ result.ok
    /\ result.val.initialized
    /\ result.val.next > call.tick + pool.tick_spacing

\* the Info of the tick of the call in a mapping (the default Info when the
\* mapping does not hold it)
InfoOf(mapping) ==
    IF call.tick \in DOMAIN mapping THEN mapping[call.tick] ELSE Info(0, 0, FALSE)

\* C19: a successful _update(map, tick, delta, upper, max) sets
\* liquidity_gross to add_delta(old gross, delta), returns flipped = ((new
\* gross = 0) # (old gross = 0)) and sets liquidity_net to old net - delta
\* when upper and to old net + delta otherwise; it returns an error when the
\* new gross exceeds max or when the new liquidity_net leaves the signed
\* 128-bit range.
C19_UpdateOfTick ==
    (pc = "done" /\ call.name = "_update")
    => LET old   == InfoOf(before.ticks)
           new   == InfoOf(pool.ticks)
           gross == add_delta(old.liquidity_gross, call.liquidity_delta)
           net   == IF call.upper THEN old.liquidity_net - call.liquidity_delta
                    ELSE old.liquidity_net + call.liquidity_delta
       IN  /\ result.ok
              => /\ gross.ok
                 /\ new.liquidity_gross = gross.val
                 /\ result.val = ((new.liquidity_gross = 0) # (old.liquidity_gross = 0))
                 /\ new.liquidity_net = net
           /\ (gross.ok /\ gross.val > call.max_liquidity)
              => ~result.ok /\ ~result.panic
           /\ (gross.ok /\ gross.val <= call.max_liquidity
               /\ (net > I128_MAX \/ net < I128_MIN))
              => ~result.ok /\ ~result.panic
           /\ (gross.ok /\ gross.val <= call.max_liquidity
               /\ net <= I128_MAX /\ net >= I128_MIN)
              => result.ok

\* the upper tick of a range has given up its last liquidity
C19_UpperTickEmptied ==
    /\ pc = "done"
    /\ call.name = "_update"
    /\ call.upper
    /\ call.liquidity_delta < 0
    /\ result = Ok(TRUE)
    /\ InfoOf(before.ticks).liquidity_gross > 0
    /\ InfoOf(pool.ticks).liquidity_gross = 0
    /\ InfoOf(pool.ticks).liquidity_net > InfoOf(before.ticks).liquidity_net

\* C20: an iteration of the swap loop that ends on the price of tick_next
\* changes the liquidity to add_delta(liquidity, -liquidity_net(tick_next))
\* (zero for one) or add_delta(liquidity, +liquidity_net(tick_next)) (one
\* for zero) when tick_next is initialized, leaves it otherwise, and sets
\* state.tick to tick_next - 1 (zero for one) or tick_next (one for zero); an
\* iteration that ends on another price leaves the liquidity and takes the
\* tick of the new price only if the price moved.
C20_CrossingMovesLiquidityAndTick ==
    [][(pc = "swap" /\ pc' = "swap")
       => LET found == next_initialized_tick_within_one_word(pool, state.tick,
                                                             call.zero_for_one).val
              tick_next == clamp_tick(found.next)
              liquidity_net == ledger.ticks[tick_next].liquidity_net
          IN  IF state'.sqrt_price_x96 = get_sqrt_ratio_at_tick(tick_next).val
              THEN /\ state'.liquidity =
                          IF ~found.initialized THEN state.liquidity
                          ELSE IF call.zero_for_one
                          THEN add_delta(state.liquidity, -liquidity_net).val
                          ELSE add_delta(state.liquidity, liquidity_net).val
                   /\ state'.tick = IF call.zero_for_one THEN tick_next - 1 ELSE tick_next
              ELSE /\ state'.liquidity = state.liquidity
                   /\ state'.tick =
                          IF state'.sqrt_price_x96 # state.sqrt_price_x96
                          THEN get_tick_at_sqrt_ratio(state'.sqrt_price_x96).val
                          ELSE state.tick]_vars

\* a zero-for-one swap has crossed an initialized tick, which changed the
\* liquidity, and goes on below it
C20_CrossedDownward ==
    /\ pc = "swap"
    /\ call.zero_for_one
    /\ crossed # <<>>
    /\ state.tick = crossed[Len(crossed)] - 1
    /\ state.sqrt_price_x96 = get_sqrt_ratio_at_tick(crossed[Len(crossed)]).val
    /\ state.liquidity # prev.liquidity

\* C24: the fee of a successful compute_swap_step is what is left of the
\* amount, |amount_remaining| - amount_in, exactly when the step is an exact
\* input that stops before the target price, and
\* ceil(amount_in * fee_pips / (FEE_DENOMINATOR - fee_pips)) in every other
\* case.
C24_FeeOfStep ==
    (pc = "done" /\ call.name = "compute_swap_step" /\ result.ok)
    => IF call.amount_remaining >= 0
          /\ result.val.sqrt_ratio_next_x96 # call.sqrt_ratio_target_x96
       THEN result.val.fee_amount = call.amount_remaining - result.val.amount_in
       ELSE result.val.fee_amount
            = (result.val.amount_in * call.fee_pips + FEE_DENOMINATOR - call.fee_pips - 1)
              \div (FEE_DENOMINATOR - call.fee_pips)

\* C28: get_next_sqrt_price_from_amount0_rounding_up(P, L, amount, add = true)
\* with amount, P, L > 0 returns ceil(L * 2^96 * P / (L * 2^96 + amount * P))
\* when amount * P and L * 2^96 + amount * P fit a word, and otherwise
\* ceil(L * 2^96 / (floor(L * 2^96 / P) + amount)); the price returned is
\* positive and not above P.
C28_NextPriceFromAmount0 ==
    (/\ pc = "done"
     /\ call.name = "get_next_sqrt_price_from_amount0_rounding_up"
     /\ call.add /\ call.amount > 0 /\ call.sqrt_px96 > 0 /\ call.liquidity > 0)
    => LET numerator1 == call.liquidity * Q96
           product    == call.amount * call.sqrt_px96
           quotient   == numerator1 \div call.sqrt_px96 + call.amount
           ceil(n, d) == (n + d - 1) \div d
       IN  /\ (product <= U256_MAX /\ numerator1 + product <= U256_MAX)
              => result = Ok(ceil(numerator1 * call.sqrt_px96, numerator1 + product))
           /\ (~(product <= U256_MAX /\ numerator1 + product <= U256_MAX)
               /\ quotient <= U256_MAX)
              => result = Ok(ceil(numerator1, quotient))
           /\ result.ok => (0 < result.val /\ result.val <= call.sqrt_px96)

C27_InitializedIffGross ==
    (pc = "done" /\ call.name = "_update" /\ result.ok /\ DOMAIN entry.ticks = {})
    => \A t \in DOMAIN pool.ticks :
           pool.ticks[t].initialized = (pool.ticks[t].liquidity_gross > 0)

\* C21: in every iteration of the swap loop the new price lies between the
\* price before the iteration and the target of the step (the nearer of the
\* price of the next tick and the price limit), both included; so the price
\* stays between the price the call started at and sqrt_price_limit_x96, and
\* it never rises in a zero-for-one swap and never falls in a one-for-zero
\* swap.
C21_PriceMovesTowardTarget ==
    [][(pc = "swap" /\ iters' = iters + 1 /\ state' # state)
       => LET found  == next_initialized_tick_within_one_word(pool, state.tick,
                                                               call.zero_for_one)
              next   == get_sqrt_ratio_at_tick(clamp_tick(found.val.next))
              target == swap_target(call.zero_for_one, next.val, call.sqrt_price_limit_x96)
              start  == entry.slot0.sqrt_price_x96
          IN  IF call.zero_for_one
              THEN /\ target <= state'.sqrt_price_x96
                   /\ state'.sqrt_price_x96 <= state.sqrt_price_x96
                   /\ call.sqrt_price_limit_x96 <= state'.sqrt_price_x96
                   /\ state'.sqrt_price_x96 <= start
              ELSE /\ state.sqrt_price_x96 <= state'.sqrt_price_x96
                   /\ state'.sqrt_price_x96 <= target
                   /\ start <= state'.sqrt_price_x96
                   /\ state'.sqrt_price_x96 <= call.sqrt_price_limit_x96]_vars


\* C23: when an iteration of the swap loop crosses an initialized tick that is
\* not in the loaded tick window, the window is reloaded once, for that
\* tick, and the tick is looked up again: found, its liquidity_net is
\* applied; still absent, the call fails with "Next tick out of allowed
\* range".  When the tick is in the loaded window the window is left as it is.
C23_OneReloadOnCrossing ==
    [][(pc = "swap" /\ iters' = iters + 1)
       => \A s \in {swap_step(pool, state, call.zero_for_one, call.amount_specified > 0, call.sqrt_price_limit_x96)} :
              (s.ok /\ crosses(s.val.state, s.val.initialized, s.val.sqrt_price_next_x96))
              => LET t      == s.val.tick_next
                     loaded == t \in DOMAIN pool.ticks
                     once   == update_ticks(ledger.ticks, pool, t)
                 IN  /\ pool' = IF loaded THEN pool ELSE once
                     /\ IF t \in DOMAIN pool'.ticks
                        THEN \A r \in {Bind(IF call.zero_for_one
                                            THEN neg_i128(pool'.ticks[t].liquidity_net)
                                            ELSE Ok(pool'.ticks[t].liquidity_net),
                                       LAMBDA net : add_delta(s.val.state.liquidity, net))} :
                                 IF r.ok
                                 THEN pc' = "swap" /\ state'.liquidity = r.val
                                      /\ crossed' = Append(crossed, t)
                                 ELSE pc' = "done" /\ result' = r
                        ELSE pc' = "done" /\ result' = Err("Next tick out of allowed range")]_vars

\* a swap has crossed a tick that it had to reload the window for
C23_CrossedAfterReload ==
    /\ pc = "swap" /\ call.name = "swap"
    /\ crossed # <<>>
    /\ crossed[Len(crossed)] \notin DOMAIN before.ticks
    /\ crossed[Len(crossed)] \in DOMAIN pool.ticks
    /\ pool.ticks = update_ticks(ledger.ticks, before, crossed[Len(crossed)]).ticks
    /\ state.liquidity # prev.liquidity


\* C25: in an iteration of the swap loop the sum amount_in + fee_amount and
\* the new amount_specified_remaining and amount_calculated do not wrap: if
\* one of them is outside the range of its 256-bit type the call ends with
\* an error, and if the loop goes on the two stored amounts are the exact
\* difference and sum.
C25_AmountsNeverWrap ==
    [][(pc = "swap" /\ iters' = iters + 1)
       => \A found \in {next_initialized_tick_within_one_word(pool, state.tick, call.zero_for_one)} :
          found.ok =>
          \A next \in {get_sqrt_ratio_at_tick(clamp_tick(found.val.next))} :
          next.ok =>
          \A step \in {compute_swap_step(state.sqrt_price_x96,
                           swap_target(call.zero_for_one, next.val, call.sqrt_price_limit_x96),
                           state.liquidity, state.amount_specified_remaining, pool.fee)} :
          step.ok =>
          LET paid == step.val.amount_in + step.val.fee_amount
              out  == step.val.amount_out
              remaining  == IF call.amount_specified > 0
                            THEN state.amount_specified_remaining - paid
                            ELSE state.amount_specified_remaining + out
              calculated == IF call.amount_specified > 0
                            THEN state.amount_calculated - out
                            ELSE state.amount_calculated + paid
          IN  /\ (paid > U256_MAX \/ remaining \notin I256_MIN .. I256_MAX
                                  \/ calculated \notin I256_MIN .. I256_MAX)
                 => (pc' = "done" /\ ~result'.ok)
              /\ pc' = "swap"
                 => /\ state'.amount_specified_remaining = remaining
                    /\ state'.amount_calculated = calculated]_vars


\* C29: in every state of the loop of swap the remaining amount has the sign
\* of amount_specified and moves toward 0: in an exact-input call 0 <=
\* amount_specified_remaining <= amount_specified and neither it nor
\* amount_calculated, which is <= 0, has risen in the last iteration; in an
\* exact-output call amount_specified <= amount_specified_remaining <= 0
\* and neither it nor amount_calculated, which is >= 0, has fallen.
C29_RemainingShrinks ==
    (InSwap /\ pc = "swap")
    => IF call.amount_specified > 0
       THEN /\ 0 <= state.amount_specified_remaining
            /\ state.amount_specified_remaining <= prev.amount_specified_remaining
            /\ prev.amount_specified_remaining <= call.amount_specified
            /\ state.amount_calculated <= prev.amount_calculated
            /\ prev.amount_calculated <= 0
       ELSE /\ state.amount_specified_remaining <= 0
            /\ prev.amount_specified_remaining <= state.amount_specified_remaining
            /\ call.amount_specified <= prev.amount_specified_remaining
            /\ prev.amount_calculated <= state.amount_calculated
            /\ 0 <= prev.amount_calculated

\* an exact-output swap is in its loop after two iterations that both moved
\* tokens
C29_TwoPaidSteps ==
    /\ InSwap /\ pc = "swap" /\ call.amount_specified < 0 /\ iters >= 2
    /\ call.amount_specified < prev.amount_specified_remaining
    /\ prev.amount_specified_remaining < state.amount_specified_remaining
    /\ 0 < prev.amount_calculated
    /\ prev.amount_calculated < state.amount_calculated


\* C30: an iteration that moves no tokens (the liquidity in range is 0, or
\* the price is already the price of the next tick) ends without an error in
\* swap and in swap_slippage: the price is the target of the step, the two
\* amounts are unchanged and the call stays in its loop.
C30_EmptyStepHandled ==
    [][(pc \in {"swap", "slippage"} /\ iters' = iters + 1)
       => \A found \in {next_initialized_tick_within_one_word(pool, state.tick, call.zero_for_one)} :
          found.ok =>
          \A next \in {get_sqrt_ratio_at_tick(clamp_tick(found.val.next))} :
          next.ok =>
          LET target == IF pc = "swap"
                        THEN swap_target(call.zero_for_one, next.val, call.sqrt_price_limit_x96)
                        ELSE next.val
          IN  (state.liquidity = 0 \/ state.sqrt_price_x96 = target)
              => /\ pc' = pc
                 /\ state'.sqrt_price_x96 = target
                 /\ state'.amount_specified_remaining = state.amount_specified_remaining
                 /\ state'.amount_calculated = state.amount_calculated]_vars


=============================================================================
